---- MODULE Spec2Model ----
(***************************************************************************)
(* Model of studip_api/async_delay.py: DelayLatch and DeferredTask, run by *)
(* a single-threaded cooperative event loop; and of                        *)
(* studip_api/downloader.py: Download, a ranged parallel download into a   *)
(* file (second half of the module).                                       *)
(*                                                                         *)
(* The event loop is a FIFO queue `ready` of task steps.  A task is a      *)
(* record of the table `tasks`; its index is its identity.  A call made    *)
(* by application code (defer, finalize, reopen_in, ...) is one atomic     *)
(* action: it is the synchronous part of the call, executed inside some    *)
(* callback of the loop.  Time is a discrete clock `now`.                  *)
(***************************************************************************)
EXTENDS Integers, Sequences, FiniteSets

\* ------------------------------------------------------------- bounds
MaxTime == 4
MaxTasks == 5
MaxCalls == 3
MaxDelay == 2
MaxWaiters == 1
MaxLatchCalls == 3

\* DeferredTask.trigger_delay (the attribute is configurable; time units of the model)
TriggerDelay == 2

\* bounds of the headers of the HEAD response: the characters of the
\* Content-Range header after its first word, the digits of Content-Length
MaxBody == 5
MaxLengthDigits == 2

\* bounds of the download: the total length probed, the chunk_size given to
\* the constructor, the parts of one download, the bytes one readchunk()
\* returns
MaxLen == 2
MaxChunkSize == 2
MaxParts == 2
MaxRead == 1

\* Download.chunk_size, its default
DefaultChunkSize == 262144

VARIABLES
    now,          \* the loop's clock, time_fun()
    tasks,        \* every Task created so far, by identity
    ready,        \* the loop's FIFO of scheduled task steps (loop._ready)
    latch_task,   \* DelayLatch._task (0: None)
    run_at,       \* DelayLatch._run_at
    cancelled,    \* DelayLatch._cancelled
    dt_task,      \* DeferredTask._task (0: None)
    started,      \* history: executions of run() started
    completed,    \* history: executions of run() that returned or raised
    last_start,   \* history: clock value when run() was last started (-1: never)
    calls,        \* history: number of defer()/finalize()/latch calls made
    hist,         \* history: facts about the calls made so far
    head,         \* the response to the HEAD request of fetch_total_length
    chunk_size,   \* Download.chunk_size
    total_length, \* Download.total_length (-1 until probed)
    aiofile,      \* Download.aiofile: "none" (None), "open" or "closed"
    file_pos,     \* the position of the file object aiofile wraps, from the
                  \* seek() of a _blocking_write_chunk to its return (else -1:
                  \* what is left behind is never read, the next starts with seek())
    parts,        \* Download.parts: the ranges and their futures, in order
    parts_set,    \* Download.parts is not None
    dl_completed, \* Download.completed: the task running await_completed
    write_lock,   \* Download.write_lock
    dl_ready,     \* the loop's FIFO of scheduled callbacks of the download
    readers,      \* the call of await_readable in progress, or the last one
    start_pc,     \* where the coroutine start() or load_completed() stands
    dl_hist,      \* history: facts about the download so far
    INSTANCES,    \* ModelObject: the INSTANCES dict of each tracked class
    heap,         \* every model object allocated so far, by identity
    exported,     \* the data the last export_all_data() returned
    originals,    \* history: INSTANCES when that data was exported
    restructured, \* what the import_data() calls of the last import returned
    model_exc,    \* the exception the last export or import raised
    loop_time,    \* StudIPSession._loop.time()
    user_selected,  \* StudIPSession._user_selected_semester and _ansicht
    selection,    \* the semester and the view selected on the server
    needs_reset_at,  \* StudIPSession._needs_reset_at (0: False)
    semester_select_lock,  \* StudIPSession._semester_select_lock: the tasks
                  \* that hold it (the first) or wait for it, in order
    timers,       \* the call_later handles of get_courses not yet run
    s_tasks,      \* the calls of get_courses and __reset_selections so far
    s_hist        \* history: facts about the session so far

delay_vars == <<now, tasks, ready, latch_task, run_at, cancelled, dt_task,
                started, completed, last_start, calls, hist>>

dl_vars == <<head, chunk_size, total_length, aiofile, file_pos, parts, parts_set, dl_completed,
             write_lock, dl_ready, readers, start_pc, dl_hist>>

model_vars == <<INSTANCES, heap, exported, originals, restructured, model_exc>>

session_vars == <<loop_time, user_selected, selection, needs_reset_at,
                  semester_select_lock, timers, s_tasks, s_hist>>

vars == <<now, tasks, ready, latch_task, run_at, cancelled, dt_task,
          started, completed, last_start, calls, hist,
          head, chunk_size, total_length, aiofile, file_pos, parts, parts_set, dl_completed,
          write_lock, dl_ready, readers, start_pc, dl_hist,
          INSTANCES, heap, exported, originals, restructured, model_exc,
          loop_time, user_selected, selection, needs_reset_at,
          semester_select_lock, timers, s_tasks, s_hist>>

Max(a, b) == IF a >= b THEN a ELSE b

Range(q) == {q[i] : i \in DOMAIN q}

\* ---------------------------------------------------------------- tasks
\* st:   "new"       created by ensure_future, first step scheduled
\*       "sleep"     latch task suspended in sleep_fun(delta); timer at `when`
\*       "await"     suspended on the task `aw`
\*       "run"       chain suspended inside run()
\*       "ready"     wake-up scheduled; it delivers `exc`
\*       "done" / "cancelled" / "failed"   finished
\* cbs:  the future's done-callbacks: the tasks to wake when this one finishes
\* history, of the caller of finalize(): mode, the state it was called in; exec,
\* whether run() was executing then; prev, _task before the call; base/cbase,
\* the executions started/completed before the call and seen/cseen, those
\* started/completed between the call and its return; nth, the defer() calls
\* made before it; of a latch task: at, the
\* clock value when it finished
NewTask(kind, st, prog) ==
    [kind |-> kind, st |-> st, prog |-> prog, pc |-> 1,
     must_cancel |-> FALSE, exc |-> "none", when |-> -1, aw |-> 0,
     cbs |-> <<>>, mode |-> "none", exec |-> FALSE, prev |-> 0, nth |-> 0,
     base |-> 0, cbase |-> 0, seen |-> 0, cseen |-> 0, at |-> -1]

Finished(t) == t.st \in {"done", "cancelled", "failed"}

\* The program state the operations read and write, as one value, so that the
\* statements of a method compose in sequence.
Cur ==
    [tasks |-> tasks, ready |-> ready, latch_task |-> latch_task,
     run_at |-> run_at, cancelled |-> cancelled, dt_task |-> dt_task,
     started |-> started, completed |-> completed, last_start |-> last_start]

Install(s) ==
    /\ tasks' = s.tasks
    /\ ready' = s.ready
    /\ latch_task' = s.latch_task
    /\ run_at' = s.run_at
    /\ cancelled' = s.cancelled
    /\ dt_task' = s.dt_task
    /\ started' = s.started
    /\ completed' = s.completed
    /\ last_start' = s.last_start

\* asyncio.ensure_future(coro()): a new Task whose first step is scheduled
ensure_future(s, rec) ==
    [s EXCEPT !.tasks = Append(@, rec),
              !.ready = Append(@, Len(s.tasks) + 1)]

\* Task.cancel() of a task that is not done:
\*   suspended on a pending future: the future is cancelled and the wake-up,
\*     carrying CancelledError, is scheduled;
\*   otherwise (a step is already scheduled): _must_cancel is set.
TaskCancel(s, t) ==
    IF s.tasks[t].st = "sleep"
    THEN [s EXCEPT !.tasks[t].st = "ready", !.tasks[t].exc = "cancelled",
                   !.tasks[t].when = -1, !.ready = Append(@, t)]
    ELSE [s EXCEPT !.tasks[t].must_cancel = TRUE]

\* A task finishes with `outcome`; the tasks awaiting it are scheduled, each
\* wake-up carrying the outcome (asyncio.wait delivers no exception).
Delivered(waiter, outcome) ==
    IF waiter.kind = "chain" /\ waiter.prog[waiter.pc] = "wait" THEN "none"
    ELSE IF outcome = "cancelled" THEN "cancelled"
    ELSE IF outcome = "failed" THEN "error"
    ELSE "none"

FinishTask(s, t, outcome) ==
    LET woken == Range(s.tasks[t].cbs)
        tk == [i \in DOMAIN s.tasks |->
                 IF i = t
                 THEN [s.tasks[i] EXCEPT
                          !.st = outcome, !.cbs = <<>>,
                          !.at = IF s.tasks[i].kind = "latch" THEN now ELSE @]
                 ELSE IF i \in woken
                 THEN [s.tasks[i] EXCEPT !.st = "ready",
                                         !.exc = Delivered(s.tasks[i], outcome)]
                 ELSE s.tasks[i]]
    IN [s EXCEPT !.tasks = tk, !.ready = @ \o s.tasks[t].cbs]

\* `await target` by task t, target not done: t is suspended and registered
AwaitTask(s, t, target) ==
    [s EXCEPT !.tasks[t].st = "await", !.tasks[t].aw = target,
              !.tasks[target].cbs = Append(@, t)]

\* ----------------------------------------------------------- DelayLatch
is_open(s) == s.latch_task = 0 \/ Finished(s.tasks[s.latch_task])

\* __set_reopen_at, were it to start a new wait task whatever the gate's state
set_reopen_at_always_new(s, t) ==
    LET s1 == [s EXCEPT !.cancelled = FALSE, !.run_at = t]
    IN [ensure_future(s1, NewTask("latch", "new", <<>>))
           EXCEPT !.latch_task = Len(s1.tasks) + 1]

\* DelayLatch.__set_reopen_at
set_reopen_at(s, t) ==
    LET s1 == [s EXCEPT !.cancelled = FALSE, !.run_at = t]
    IN IF is_open(s1)
       THEN [ensure_future(s1, NewTask("latch", "new", <<>>))
                EXCEPT !.latch_task = Len(s1.tasks) + 1]
       ELSE TaskCancel(s1, s1.latch_task)

reopen_at(s, timestamp) == set_reopen_at(s, Max(s.run_at, timestamp))

\* reopen_in, were it to take the new deadline as it comes
reopen_in_latest(s, delay) == set_reopen_at(s, now + delay)

reopen_in(s, delay) == set_reopen_at(s, Max(s.run_at, now + delay))

reopen_now(s) == set_reopen_at(s, now - 1)

\* cancel_latch, were it to interrupt the wait task without marking the gate
\* as cancelled
cancel_latch_no_flag(s) ==
    IF ~is_open(s) THEN TaskCancel(s, s.latch_task) ELSE s

cancel_latch(s) ==
    LET s1 == [s EXCEPT !.cancelled = TRUE]
    IN IF ~is_open(s1) THEN TaskCancel(s1, s1.latch_task) ELSE s1

\* The body of DelayLatch.__delayed_reopen_task from the loop test on:
\* sleep until _run_at (the task must be the one stored in _task), or return
LatchLoop(s, t) ==
    IF now < s.run_at
    THEN IF s.latch_task # t
         THEN FinishTask(s, t, "failed")   \* the assertion of the loop body
         ELSE [s EXCEPT !.tasks[t].st = "sleep", !.tasks[t].when = s.run_at,
                        !.tasks[t].exc = "none"]
    ELSE FinishTask(s, t, "done")

\* One step of the task running __delayed_reopen_task (Task._step).  A pending
\* _must_cancel turns the step into a throw of CancelledError.  Thrown into a
\* coroutine that has not started, it ends the task as cancelled: the
\* coroutine's try block was never entered.  Thrown at the sleep, it is caught:
\* re-raised if _cancelled, otherwise the loop goes round.
StepLatch(s, t) ==
    LET tk == s.tasks[t]
        thrown == tk.must_cancel \/ tk.exc = "cancelled"
        s1 == [s EXCEPT !.tasks[t].must_cancel = FALSE, !.tasks[t].exc = "none"]
    IN IF thrown /\ (tk.st = "new" \/ s.cancelled)
       THEN FinishTask(s1, t, "cancelled")
       ELSE LatchLoop(s1, t)

\* --------------------------------------------------------- DeferredTask
is_pending(s) == s.dt_task # 0 /\ ~Finished(s.tasks[s.dt_task])

is_waiting(s) == ~is_open(s)

\* The state defer() and finalize() branch on
StateOf(s) ==
    IF ~is_pending(s) THEN "idle"
    ELSE IF is_waiting(s) THEN "waiting"
    ELSE "running"

\* run() is executing: some chain is suspended inside it
Executing(s) == \E t \in DOMAIN s.tasks : s.tasks[t].st = "run"

\* execute_sequentially(*coro_funcs): a task that awaits coro_func() for each
\* coro_func in turn.  A stage is
\*   "wait"   self._wait_for_task:  asyncio.wait([self._task]), with _task read
\*            when the stage is reached, not when the chain was created
\*   "latch"  self.trigger_latch.wait_on_latch
\*   "run"    self.run
execute_sequentially(s, prog) == ensure_future(s, NewTask("chain", "new", prog))

\* The chain t enters stage i and runs until it suspends or returns.
\* wait_on_latch returns without suspending when the latch is open.
RECURSIVE RunChain(_, _, _)
RunChain(s, t, i) ==
    LET prog == s.tasks[t].prog
        s1 == [s EXCEPT !.tasks[t].pc = i, !.tasks[t].exc = "none"]
    IN IF i > Len(prog) THEN FinishTask(s1, t, "done")
       ELSE IF prog[i] = "wait" THEN AwaitTask(s1, t, s1.dt_task)
       ELSE IF prog[i] = "latch"
       THEN IF is_open(s1) THEN RunChain(s1, t, i + 1)
            ELSE AwaitTask(s1, t, s1.latch_task)
       ELSE [s1 EXCEPT !.tasks[t].st = "run",
                        !.started = @ + 1, !.last_start = now]

\* One step of a chain: its first step, or the wake-up from the stage it is
\* suspended in.  An exception delivered by the stage ends the chain.
StepChain(s, t) ==
    LET tk == s.tasks[t]
        wasRun == tk.st = "ready" /\ tk.prog[tk.pc] = "run"
        s1 == IF wasRun THEN [s EXCEPT !.completed = @ + 1] ELSE s
    IN IF tk.st = "new" THEN RunChain(s1, t, 1)
       ELSE IF tk.exc = "cancelled" THEN FinishTask(s1, t, "cancelled")
       ELSE IF tk.exc = "error" THEN FinishTask(s1, t, "failed")
       ELSE RunChain(s1, t, tk.pc + 1)

\* The wake-up of a task suspended in `await task` inside finalize() or
\* wait_on_latch(): the call returns, or raises what the awaited task delivers.
\* seen/cseen: history, the executions started/completed since the call.
StepCaller(s, t) ==
    LET tk == s.tasks[t]
        s1 == [s EXCEPT !.tasks[t].seen = s.started - tk.base,
                        !.tasks[t].cseen = s.completed - tk.cbase]
    IN IF tk.exc = "cancelled" THEN FinishTask(s1, t, "cancelled")
       ELSE IF tk.exc = "error" THEN FinishTask(s1, t, "failed")
       ELSE FinishTask(s1, t, "done")

\* defer, were it to start a chain in the waiting state as it does when idle
defer_always_new(s) ==
    IF ~is_pending(s) \/ is_waiting(s)
    THEN LET s1 == reopen_in(s, TriggerDelay)
             s2 == execute_sequentially(s1, <<"latch", "run">>)
         IN [s2 EXCEPT !.dt_task = Len(s2.tasks)]
    ELSE LET s1 == reopen_in(s, TriggerDelay)
             s2 == execute_sequentially(s1, <<"wait", "latch", "run">>)
         IN [s2 EXCEPT !.dt_task = Len(s2.tasks)]

\* DeferredTask.defer
defer(s) ==
    IF ~is_pending(s)
    THEN LET s1 == reopen_in(s, TriggerDelay)
             s2 == execute_sequentially(s1, <<"latch", "run">>)
         IN [s2 EXCEPT !.dt_task = Len(s2.tasks)]
    ELSE IF is_waiting(s)
    THEN reopen_in(s, TriggerDelay)
    ELSE LET s1 == reopen_in(s, TriggerDelay)
             s2 == execute_sequentially(s1, <<"wait", "latch", "run">>)
         IN [s2 EXCEPT !.dt_task = Len(s2.tasks)]

\* finalize, were it to return without awaiting the chain: its caller is
\* scheduled at once
finalize_no_await(s) ==
    LET s1 == IF ~is_pending(s)
              THEN LET a == execute_sequentially(s, <<"run">>)
                   IN [a EXCEPT !.dt_task = Len(a.tasks)]
              ELSE IF is_waiting(s)
              THEN reopen_now(s)
              ELSE LET a == execute_sequentially(s, <<"wait", "run">>)
                   IN [a EXCEPT !.dt_task = Len(a.tasks)]
        caller == [NewTask("fin", "ready", <<>>) EXCEPT
                      !.mode = StateOf(s), !.exec = Executing(s),
                      !.prev = s.dt_task, !.nth = hist.defers,
                      !.base = s.started, !.cbase = s.completed,
                      !.aw = s1.dt_task]
    IN [s1 EXCEPT !.tasks = Append(@, caller),
                  !.ready = Append(@, Len(s1.tasks) + 1)]

\* finalize, were it to take the idle state as nothing to do: no chain is
\* started there, and the call returns
finalize_skip_idle(s) ==
    LET s1 == IF ~is_pending(s) THEN s
              ELSE IF is_waiting(s) THEN reopen_now(s)
              ELSE LET a == execute_sequentially(s, <<"wait", "run">>)
                   IN [a EXCEPT !.dt_task = Len(a.tasks)]
        caller == [NewTask("fin", "await", <<>>) EXCEPT
                      !.mode = StateOf(s), !.exec = Executing(s),
                      !.prev = s.dt_task, !.nth = hist.defers,
                      !.base = s.started, !.cbase = s.completed]
        s2 == [s1 EXCEPT !.tasks = Append(@, caller)]
    IN IF ~is_pending(s)
       THEN [s2 EXCEPT !.tasks[Len(s2.tasks)].st = "ready",
                       !.ready = Append(@, Len(s2.tasks))]
       ELSE AwaitTask(s2, Len(s2.tasks), s2.dt_task)

\* finalize, were its chain of the running state to leave _wait_for_task out:
\* run() is started beside the execution in progress
finalize_no_wait_stage(s) ==
    LET s1 == IF ~is_pending(s) \/ ~is_waiting(s)
              THEN LET a == execute_sequentially(s, <<"run">>)
                   IN [a EXCEPT !.dt_task = Len(a.tasks)]
              ELSE reopen_now(s)
        caller == [NewTask("fin", "await", <<>>) EXCEPT
                      !.mode = StateOf(s), !.exec = Executing(s),
                      !.prev = s.dt_task, !.nth = hist.defers,
                      !.base = s.started,
                      !.cbase = s.completed]
        s2 == [s1 EXCEPT !.tasks = Append(@, caller)]
    IN AwaitTask(s2, Len(s2.tasks), s2.dt_task)

\* DeferredTask.finalize up to its `await self._task`: the caller (a task of
\* its own in the table) is suspended on the chain that is _task at that point.
finalize(s) ==
    LET s1 == IF ~is_pending(s)
              THEN LET a == execute_sequentially(s, <<"run">>)
                   IN [a EXCEPT !.dt_task = Len(a.tasks)]
              ELSE IF is_waiting(s)
              THEN reopen_now(s)
              ELSE LET a == execute_sequentially(s, <<"wait", "run">>)
                   IN [a EXCEPT !.dt_task = Len(a.tasks)]
        caller == [NewTask("fin", "await", <<>>) EXCEPT
                      !.mode = StateOf(s), !.exec = Executing(s),
                      !.prev = s.dt_task, !.nth = hist.defers,
                      !.base = s.started,
                      !.cbase = s.completed]
        s2 == [s1 EXCEPT !.tasks = Append(@, caller)]
    IN AwaitTask(s2, Len(s2.tasks), s2.dt_task)

\* ------------------------------------------------------------- actions
\* A DelayLatch and a DeferredTask as constructed
InitDelay ==
    /\ now = 0
    /\ tasks = <<>>
    /\ ready = <<>>
    /\ latch_task = 0
    /\ run_at = -1
    /\ cancelled = FALSE
    /\ dt_task = 0
    /\ started = 0
    /\ completed = 0
    /\ last_start = -1
    /\ calls = 0
    /\ hist = [burst |-> TRUE, last_defer |-> -1, dr_base |-> -1, defers |-> 0,
               op |-> "none", req |-> -1, max_req |-> -1, on_closed |-> FALSE,
               only_in |-> TRUE, closed |-> FALSE, cancels |-> FALSE,
               cancel_of |-> 0, revoked |-> FALSE]

\* A header of a response: present, and its text, a sequence of characters.
NoHeader == [present |-> FALSE, text |-> <<>>]

\* A Download as constructed, with chunk_size c.
\* head: seen, the response has arrived; cl, its Content-Length header; cr, its
\* Content-Range header.
\* dl_completed: st, where the task await_completed stands: "none" (not
\* created), "new", "gather" (suspended on the gather future), "wake_gather",
\* "closing" (suspended on aiofile.close()), "wake_close", "done", "failed";
\* outer, the gather future; nfinished, the children it has seen succeed; exc,
\* the part whose error it carries; result, the list it resolved to; order,
\* the children it has seen succeed, in the order their callbacks ran; bare,
\* the value it resolved to is the range result[1] itself, not a list.
\* dl_hist: closes, the times the sink was closed; first_failed, the part whose
\* future failed first (0: none); file_length, the length load_completed found
\* the file on disk to have (-1: not measured); assert_failed, an assertion of
\* _blocking_write_chunk has failed.
InitDownload(c) ==
    /\ head = [seen |-> FALSE, cl |-> NoHeader, cr |-> NoHeader]
    /\ chunk_size = c
    /\ total_length = -1
    /\ aiofile = "none"
    /\ file_pos = -1
    /\ parts = <<>>
    /\ parts_set = FALSE
    /\ dl_completed = [st |-> "none", outer |-> "pending", nfinished |-> 0,
                       exc |-> 0, result |-> <<>>, order |-> <<>>,
                       bare |-> FALSE]
    /\ write_lock = [locked |-> FALSE, waiters |-> <<>>]
    /\ dl_ready = <<>>
    /\ readers = <<>>
    /\ start_pc = "idle"
    /\ dl_hist = [closes |-> 0, first_failed |-> 0, file_length |-> -1,
                  assert_failed |-> FALSE]

\* A reference as it is passed around: None ("none"), the object itself
\* ("obj", a) or, transformed, its id ("id", id).
Ref(tag, a, id) == [tag |-> tag, a |-> a, id |-> id]

\* one empty dict or list per tracked class
NoData == [Semester |-> <<>>, Course |-> <<>>, File |-> <<>>]

\* Every tracked class is created with INSTANCES = {}.
InitModel ==
    /\ INSTANCES = NoData
    /\ heap = <<>>
    /\ exported = [done |-> FALSE, data |-> NoData]
    /\ originals = NoData
    /\ restructured = [done |-> FALSE, objs |-> NoData]
    /\ model_exc = "none"

\* The view get_courses selects before it lists a semester
SemNumber == "sem_number"

\* A StudIPSession after __attrs_post_init__ and its first get_semesters():
\* the user's semester and view (ansicht) are known and are what the server
\* has selected, no reset is pending, the lock is free, no timer is set.
\* s_hist: calls, the calls of get_courses that asked for a reset so far;
\* last_change, the clock when the last of them did; restored_by, the calls
\* whose timers have restored the selection since; failed, a request has
\* failed.
InitSession(ansicht) ==
    /\ loop_time = 0
    /\ user_selected = [semester |-> "s1", ansicht |-> ansicht]
    /\ selection = [semester |-> "s1", ansicht |-> ansicht]
    /\ needs_reset_at = 0
    /\ semester_select_lock = <<>>
    /\ timers = {}
    /\ s_tasks = <<>>
    /\ s_hist = [calls |-> 0, last_change |-> 0, restored_by |-> <<>>,
                 failed |-> FALSE]

Init ==
    InitDelay /\ InitDownload(DefaultChunkSize) /\ InitModel /\ InitSession(SemNumber)

\* history of the defer()/finalize() calls: burst, only defer() was called so
\* far, each call less than trigger_delay after the one before; last_defer, the
\* clock value at the last defer(); defers, the number of defer() calls;
\* dr_base, when the last call was a defer() made while run() was executing,
\* the executions started before it (otherwise -1)
\* This defer() comes first, or less than trigger_delay after the last.
StateOfBurst == hist.last_defer = -1 \/ now - hist.last_defer < TriggerDelay

\* The tasks a call creates
Need(s, call) ==
    IF call = "defer"
    THEN (IF StateOf(s) = "waiting" THEN 0 ELSE 2)
    ELSE (IF StateOf(s) = "waiting" THEN 1 ELSE 2)

\* Time passes.
Tick ==
    /\ now < MaxTime
    /\ now' = now + 1
    /\ UNCHANGED <<tasks, ready, latch_task, run_at, cancelled, dt_task,
                   started, completed, last_start, calls, hist>>
    /\ UNCHANGED <<dl_vars, model_vars, session_vars>>

\* The timer of a sleep expires: the sleeping task's wake-up is scheduled.
FireTimer(t) ==
    /\ tasks[t].st = "sleep"
    /\ now >= tasks[t].when
    /\ tasks' = [tasks EXCEPT ![t].st = "ready", ![t].exc = "none", ![t].when = -1]
    /\ ready' = Append(ready, t)
    /\ UNCHANGED <<now, latch_task, run_at, cancelled, dt_task,
                   started, completed, last_start, calls, hist>>
    /\ UNCHANGED <<dl_vars, model_vars, session_vars>>

\* The loop runs the step at the head of its queue.
Step ==
    /\ ready # <<>>
    /\ LET t == Head(ready)
           s == [Cur EXCEPT !.ready = Tail(ready)]
       IN Install(IF tasks[t].kind = "latch" THEN StepLatch(s, t)
                  ELSE IF tasks[t].kind = "chain" THEN StepChain(s, t)
                  ELSE StepCaller(s, t))
    /\ UNCHANGED <<now, calls, hist>>
    /\ UNCHANGED <<dl_vars, model_vars, session_vars>>

\* What run() awaits completes: run() is about to return (ok) or raise.
RunFinish(t, ok) ==
    /\ tasks[t].st = "run"
    /\ tasks' = [tasks EXCEPT ![t].st = "ready",
                              ![t].exc = IF ok THEN "none" ELSE "error"]
    /\ ready' = Append(ready, t)
    /\ UNCHANGED <<now, latch_task, run_at, cancelled, dt_task,
                   started, completed, last_start, calls, hist>>
    /\ UNCHANGED <<dl_vars, model_vars, session_vars>>

\* Application code calls defer().
Defer ==
    /\ calls < MaxCalls
    /\ now + TriggerDelay <= MaxTime
    /\ Len(tasks) + Need(Cur, "defer") <= MaxTasks
    /\ Install(defer(Cur))
    /\ calls' = calls + 1
    /\ hist' = [hist EXCEPT
                  !.burst = @ /\ StateOfBurst,
                  !.last_defer = now,
                  !.defers = @ + 1,
                  !.dr_base = IF StateOf(Cur) = "running" /\ Executing(Cur)
                              THEN started ELSE -1]
    /\ UNCHANGED now
    /\ UNCHANGED <<dl_vars, model_vars, session_vars>>

\* Application code calls `await finalize()`.
Finalize ==
    /\ calls < MaxCalls
    /\ Len(tasks) + Need(Cur, "finalize") <= MaxTasks
    /\ Install(finalize(Cur))
    /\ calls' = calls + 1
    /\ hist' = [hist EXCEPT !.burst = FALSE, !.dr_base = -1]
    /\ UNCHANGED now
    /\ UNCHANGED <<dl_vars, model_vars, session_vars>>

Next ==
    \/ Tick
    \/ Step
    \/ \E t \in DOMAIN tasks : FireTimer(t)
    \/ \E t \in DOMAIN tasks, ok \in BOOLEAN : RunFinish(t, ok)
    \/ Defer
    \/ Finalize

Spec == Init /\ [][Next]_vars

\* ------------------------------------------- the DelayLatch used directly
\* history of a latch call: op, the method; req, the timestamp asked for;
\* max_req, the latest timestamp asked for so far; on_closed, the call found
\* the latch closed with its deadline in the future; only_in, every
\* call so far was a reopen_in(); closed, the call found the latch closed;
\* cancels, cancel_latch() was called at least once; cancel_of, the wait task
\* that the last cancel_latch() on a closed latch cancelled (0: none); revoked,
\* a reopen call was made since, while that wait task was not finished
LatchCall(op, req) ==
    /\ calls' = calls + 1
    /\ hist' = [hist EXCEPT
                  !.op = op, !.req = req,
                  !.max_req = IF op \in {"in", "at"} THEN Max(@, req) ELSE @,
                  !.on_closed = ~is_open(Cur) /\ run_at > now,
                  !.only_in = @ /\ op = "in",
                  !.closed = ~is_open(Cur),
                  !.cancels = @ \/ op = "cancel",
                  !.cancel_of = IF op = "cancel" /\ ~is_open(Cur)
                                THEN latch_task ELSE @,
                  !.revoked = IF op = "cancel" /\ ~is_open(Cur) THEN FALSE
                              ELSE @ \/ (hist.cancel_of # 0
                                         /\ ~Finished(tasks[hist.cancel_of]))]
    /\ UNCHANGED now
    /\ UNCHANGED <<dl_vars, model_vars, session_vars>>

\* Application code calls trigger_latch.reopen_in(delay).
ReopenIn(delay) ==
    /\ calls < MaxLatchCalls
    /\ now + delay <= MaxTime
    /\ Len(tasks) < MaxTasks
    /\ Install(reopen_in(Cur, delay))
    /\ LatchCall("in", now + delay)

\* Application code calls trigger_latch.reopen_at(timestamp).
ReopenAt(timestamp) ==
    /\ calls < MaxLatchCalls
    /\ Len(tasks) < MaxTasks
    /\ Install(reopen_at(Cur, timestamp))
    /\ LatchCall("at", timestamp)

\* Application code calls trigger_latch.reopen_now().
ReopenNow ==
    /\ calls < MaxLatchCalls
    /\ Len(tasks) < MaxTasks
    /\ Install(reopen_now(Cur))
    /\ LatchCall("now", now - 1)

\* Application code calls trigger_latch.cancel_latch().
CancelLatch ==
    /\ calls < MaxLatchCalls
    /\ Install(cancel_latch(Cur))
    /\ LatchCall("cancel", -1)

\* DelayLatch.wait_on_latch called by a task: it returns at once when the
\* latch is open, otherwise the caller is suspended on the wait task.
wait_on_latch(s) ==
    IF is_open(s) THEN s
    ELSE LET s1 == [s EXCEPT !.tasks = Append(@, NewTask("waiter", "await", <<>>))]
         IN AwaitTask(s1, Len(s1.tasks), s1.latch_task)

Waiters == {t \in DOMAIN tasks : tasks[t].kind = "waiter"}

\* A task of the application calls `await trigger_latch.wait_on_latch()`.
WaitOnLatch ==
    /\ calls < MaxLatchCalls
    /\ Cardinality(Waiters) < MaxWaiters
    /\ Len(tasks) < MaxTasks
    /\ Install(wait_on_latch(Cur))
    /\ calls' = calls + 1
    /\ UNCHANGED <<now, hist>>
    /\ UNCHANGED <<dl_vars, model_vars, session_vars>>

LatchNext ==
    \/ Tick
    \/ Step
    \/ \E t \in DOMAIN tasks : FireTimer(t)
    \/ \E d \in 1..MaxDelay : ReopenIn(d)
    \/ \E ts \in now..(now + MaxDelay) : ReopenAt(ts)
    \/ ReopenNow
    \/ CancelLatch
    \/ WaitOnLatch

LatchSpec == Init /\ [][LatchNext]_vars

\* ------------------------------------------------------------- Download
\* The loop runs the callbacks of dl_ready in order.  A callback is the step
\* of a task or a done-callback of a future: [cb |-> "part", arg |-> i] the
\* first step of the worker of part i, "gather" the done-callback gather() put
\* on part i, "completed" a step of await_completed, "reader" the wake-up of
\* the await_readable call arg.  What the download waits for from outside (a
\* chunk of a response, the executor finishing a write, a flush or a close) is
\* an action of its own, which also runs the step of the worker it wakes.
Min(a, b) == IF a <= b THEN a ELSE b

\* sliced, were it to yield whole slices only: a final slice shorter than c is
\* left out
RECURSIVE sliced_strict(_, _, _)
sliced_strict(n, c, i) ==
    IF i + c > n THEN <<>>
    ELSE <<[start |-> i, stop |-> i + c]>> \o sliced_strict(n, c, i + c)

\* more_itertools.sliced(range(n), c) from index i on: the slices
\* range(n)[i : i + c], range(n)[i + c : i + 2c], ... up to the first empty one
RECURSIVE sliced(_, _, _)
sliced(n, c, i) ==
    LET r == [start |-> Min(i, n), stop |-> Min(i + c, n)]
    IN IF r.stop <= r.start THEN <<>>
       ELSE <<r>> \o sliced(n, c, i + c)

\* A part: its range [start, stop) and the task running download_range on it.
\* st: "new" (first step scheduled), "read" (awaiting the response, then
\* readchunk()), "lock" (awaiting write_lock), "write" (_blocking_write_chunk
\* handed to the executor), "seeked" (its seek() done), "written" (its write()
\* done), "flush" (awaiting aiofile.flush()), "done", "failed"; offset,
\* the local `offset`; pend, the length of the chunk in hand; cbs, the
\* done-callbacks of the future; history: got, the bytes readchunk() has
\* delivered.
NewPart(r) ==
    [start |-> r.start, stop |-> r.stop, st |-> "new", offset |-> r.start,
     pend |-> 0, cbs |-> <<>>, got |-> 0]

PartDone(p) == p.st \in {"done", "failed"}

\* The state of the download the operations read and write, as one value
DCur ==
    [total_length |-> total_length, aiofile |-> aiofile,
     file_pos |-> file_pos, parts |-> parts,
     completed |-> dl_completed, write_lock |-> write_lock, ready |-> dl_ready,
     readers |-> readers, hist |-> dl_hist]

DInstall(d) ==
    /\ total_length' = d.total_length
    /\ aiofile' = d.aiofile
    /\ file_pos' = d.file_pos
    /\ parts' = d.parts
    /\ dl_completed' = d.completed
    /\ write_lock' = d.write_lock
    /\ dl_ready' = d.ready
    /\ readers' = d.readers
    /\ dl_hist' = d.hist

\* The future of part i is resolved (done) or fails (failed): its
\* done-callbacks are scheduled.
FinishPart(d, i, outcome) ==
    [d EXCEPT !.parts[i].st = outcome, !.parts[i].cbs = <<>>,
              !.parts[i].pend = 0,
              !.parts[i].offset = IF outcome = "failed" THEN d.parts[i].start ELSE @,
              !.parts[i].got = IF outcome = "failed" THEN 0 ELSE @,
              !.ready = @ \o d.parts[i].cbs,
              !.hist.first_failed =
                  IF outcome = "failed" /\ @ = 0 THEN i ELSE @]

\* _write_chunk, were it to hand the write to the executor without write_lock
write_chunk_no_lock(d, i, k) ==
    [d EXCEPT !.parts[i].st = "write", !.parts[i].pend = k,
              !.parts[i].got = @ + k]

\* `async with self.write_lock` entered by the worker of part i holding a
\* chunk of k bytes: the write is handed to the executor, or the worker queues
\* for the lock.
write_chunk(d, i, k) ==
    IF ~d.write_lock.locked
    THEN [d EXCEPT !.write_lock.locked = TRUE, !.parts[i].got = @ + k,
                   !.parts[i].st = "write", !.parts[i].pend = k]
    ELSE [d EXCEPT !.write_lock.waiters = Append(@, i), !.parts[i].got = @ + k,
                   !.parts[i].st = "lock", !.parts[i].pend = k]

\* The position of the file when the _blocking_write_chunk of part i is over:
\* it is followed on while the one of another part is past its seek().
LeftBehind(d, i) ==
    IF \E j \in DOMAIN d.parts : j # i /\ d.parts[j].st \in {"seeked", "written"}
    THEN d.file_pos ELSE -1

\* A step of _blocking_write_chunk for part i in a thread of the executor:
\* seek(offset), write(chunk), then tell() and the assertions.  On a closed
\* file each raises ValueError.  The function returns ("read": the worker goes
\* back to readchunk()) or raises ("raise").
blocking_write_chunk(d, i) ==
    LET p == d.parts[i]
    IN IF d.aiofile = "closed"
       THEN [d EXCEPT !.parts[i].st = "raise", !.file_pos = LeftBehind(d, i)]
       ELSE IF p.st = "write"
       THEN [d EXCEPT !.file_pos = p.offset, !.parts[i].st = "seeked"]
       ELSE IF p.st = "seeked"
       THEN [d EXCEPT !.file_pos = @ + p.pend, !.parts[i].st = "written"]
       ELSE IF d.file_pos = p.offset + p.pend   \* new_offset == offset + written
       THEN [d EXCEPT !.parts[i].st = "read", !.parts[i].offset = @ + p.pend,
                      !.parts[i].pend = 0, !.file_pos = LeftBehind(d, i)]
       ELSE [d EXCEPT !.parts[i].st = "raise", !.hist.assert_failed = TRUE,
                      !.file_pos = LeftBehind(d, i)]

\* write_lock released: the first worker queued takes it and hands its write
\* to the executor.
release(d) ==
    IF d.write_lock.waiters = <<>>
    THEN [d EXCEPT !.write_lock.locked = FALSE]
    ELSE [d EXCEPT !.write_lock.waiters = Tail(@),
                   !.parts[Head(d.write_lock.waiters)].st = "write"]

\* asyncio.gather(*(f for r, f in self.parts)), children i, i+1, ...: a
\* done-callback on each; on a child that is done it is scheduled at once.
RECURSIVE gather(_, _)
gather(d, i) ==
    IF i > Len(d.parts) THEN d
    ELSE LET cb == [cb |-> "gather", arg |-> i]
         IN gather(IF PartDone(d.parts[i])
                   THEN [d EXCEPT !.ready = Append(@, cb)]
                   ELSE [d EXCEPT !.parts[i].cbs = Append(@, cb)],
                   i + 1)

\* The range a part resolved to: range(byte_range.start, offset)
ResultOf(p) == [start |-> p.start, stop |-> p.offset]

\* gather's done-callback, were it to wait for every child before it lets a
\* failure through (return_exceptions-like), keeping the last failure seen
gather_done_callback_last(d, i) ==
    LET n == d.completed.nfinished + 1
        failed == d.parts[i].st = "failed"
        d1 == [d EXCEPT !.completed.nfinished = n,
                        !.completed.exc = IF failed THEN i ELSE @]
    IN IF n < Len(d.parts) THEN d1
       ELSE [d1 EXCEPT
               !.completed.outer = IF d1.completed.exc # 0 THEN "failed" ELSE "done",
               !.completed.result = IF d1.completed.exc # 0 THEN <<>>
                                    ELSE [j \in 1..Len(d.parts) |-> ResultOf(d.parts[j])],
               !.completed.st = "wake_gather",
               !.ready = Append(@, [cb |-> "completed", arg |-> 0])]

\* gather's done-callback, were it to collect the results in the order the
\* children finish
gather_done_callback_arrival(d, i) ==
    IF d.completed.outer # "pending" THEN d
    ELSE IF d.parts[i].st = "failed"
    THEN [d EXCEPT !.completed.outer = "failed", !.completed.exc = i,
                   !.completed.st = "wake_gather",
                   !.ready = Append(@, [cb |-> "completed", arg |-> 0])]
    ELSE LET n == d.completed.nfinished + 1
             order == Append(d.completed.order, i)
         IN IF n < Len(d.parts)
            THEN [d EXCEPT !.completed.nfinished = n, !.completed.order = order]
            ELSE [d EXCEPT !.completed.nfinished = n, !.completed.order = order,
                           !.completed.outer = "done",
                           !.completed.result =
                               [j \in 1..Len(d.parts) |-> ResultOf(d.parts[order[j]])],
                           !.completed.st = "wake_gather",
                           !.ready = Append(@, [cb |-> "completed", arg |-> 0])]

\* The done-callback gather() put on part i (tasks.gather._done_callback,
\* return_exceptions false): the first failure is set on the gather future at
\* once; the result is set when every child has succeeded, and lists the
\* results of the children in the order they were given to gather().  Either
\* wakes await_completed.
gather_done_callback(d, i) ==
    IF d.completed.outer # "pending" THEN d
    ELSE IF d.parts[i].st = "failed"
    THEN [d EXCEPT !.completed.outer = "failed", !.completed.exc = i,
                   !.completed.st = "wake_gather",
                   !.ready = Append(@, [cb |-> "completed", arg |-> 0])]
    ELSE LET n == d.completed.nfinished + 1
         IN IF n < Len(d.parts)
            THEN [d EXCEPT !.completed.nfinished = n,
                           !.completed.order = Append(@, i)]
            ELSE [d EXCEPT !.completed.nfinished = n,
                           !.completed.order = Append(@, i),
                           !.completed.outer = "done",
                           !.completed.result =
                               [j \in 1..Len(d.parts) |-> ResultOf(d.parts[j])],
                           !.completed.st = "wake_gather",
                           !.ready = Append(@, [cb |-> "completed", arg |-> 0])]

\* A step of the task running await_completed: its first step calls gather()
\* and awaits it (with no part the gather future is done and the step goes on
\* to the finally block); woken from gather it enters the finally block and
\* awaits aiofile.close(); woken from close() it returns the list or raises.
await_completed(d) ==
    IF d.completed.st = "new"
    THEN IF Len(d.parts) = 0
         THEN [d EXCEPT !.completed.outer = "done", !.completed.st = "closing"]
         ELSE [gather(d, 1) EXCEPT !.completed.st = "gather"]
    ELSE IF d.completed.st = "wake_gather"
    THEN [d EXCEPT !.completed.st = "closing"]
    ELSE [d EXCEPT !.completed.st =
                      IF d.completed.outer = "done" THEN "done" ELSE "failed"]

\* A call of await_readable(offset, length).  st: "await" (suspended on the
\* future of part aw), "returned", "raised"; why, what it raised: "completed"
\* (the failure of completed), "part" (the failure of a part it awaited),
\* "attribute" (completed is None),
\* "index" (completed_ranges[0] of an empty list), "assert"; early, it took
\* the completed.done() branch; history: awaited, the parts whose future it
\* has awaited; before, an earlier call for the same window returned normally.
NewReader(offset, length) ==
    [offset |-> offset, length |-> length, st |-> "run", aw |-> 0,
     why |-> "none", early |-> FALSE, awaited |-> {}, before |-> FALSE]

\* requested_range of the call r
requested_range(d, r) ==
    [start |-> d.readers[r].offset,
     stop |-> Min(d.readers[r].offset + d.readers[r].length, d.total_length)]

\* The test of the loop over self.parts
Intersects(q, p) == Max(q.start, p.start) < Min(q.stop, p.stop)

\* The parts the call r has awaited, in order
Awaited(d, r) ==
    SelectSeq([i \in 1..Len(d.parts) |-> i],
              LAMBDA i : i \in d.readers[r].awaited)

\* `for r in completed_ranges: assert r.start <= last; last = r.stop`
\* from entry i on: whether the assertion held throughout, and last
RECURSIVE Walk(_, _, _)
Walk(comp, i, last) ==
    IF i > Len(comp) THEN [ok |-> TRUE, last |-> last]
    ELSE IF ~(comp[i].start <= last) THEN [ok |-> FALSE, last |-> last]
    ELSE Walk(comp, i + 1, comp[i].stop)

\* await_readable after its loop, completed_ranges holding the results of the
\* parts awaited: lines 187-195
CheckReadable(d, r) ==
    LET w == Awaited(d, r)
        comp == [k \in 1..Len(w) |-> ResultOf(d.parts[w[k]])]
        req == requested_range(d, r)
    IN IF Len(comp) = 0
       THEN [d EXCEPT !.readers[r].st = "raised", !.readers[r].why = "index"]
       ELSE LET walk == Walk(comp, 1, comp[1].start)
            IN IF walk.ok /\ comp[1].start <= req.start /\ walk.last >= req.stop
               THEN [d EXCEPT !.readers[r].st = "returned"]
               ELSE [d EXCEPT !.readers[r].st = "raised",
                              !.readers[r].why = "assert"]

\* The loop of await_readable, were it to await every part
RECURSIVE RunReadableAll(_, _, _)
RunReadableAll(d, r, i) ==
    IF i > Len(d.parts) THEN CheckReadable(d, r)
    ELSE LET d1 == [d EXCEPT !.readers[r].awaited = @ \union {i}]
         IN IF d.parts[i].st = "done" THEN RunReadableAll(d1, r, i + 1)
            ELSE IF d.parts[i].st = "failed"
            THEN [d1 EXCEPT !.readers[r].st = "raised", !.readers[r].why = "part"]
            ELSE [d1 EXCEPT !.readers[r].st = "await", !.readers[r].aw = i,
                            !.parts[i].cbs = Append(@, [cb |-> "reader", arg |-> r])]

\* The loop of await_readable, were it to stop at the first part it wants
RECURSIVE RunReadableFirst(_, _, _)
RunReadableFirst(d, r, i) ==
    IF i > Len(d.parts) \/ d.readers[r].awaited # {} THEN CheckReadable(d, r)
    ELSE IF ~Intersects(requested_range(d, r), d.parts[i])
    THEN RunReadableFirst(d, r, i + 1)
    ELSE LET d1 == [d EXCEPT !.readers[r].awaited = @ \union {i}]
         IN IF d.parts[i].st = "done" THEN RunReadableFirst(d1, r, i + 1)
            ELSE IF d.parts[i].st = "failed"
            THEN [d1 EXCEPT !.readers[r].st = "raised", !.readers[r].why = "part"]
            ELSE [d1 EXCEPT !.readers[r].st = "await", !.readers[r].aw = i,
                            !.parts[i].cbs = Append(@, [cb |-> "reader", arg |-> r])]

\* The loop of await_readable from part i on: `await f` of each part that
\* intersects the window.  A future that is done does not suspend the call: it
\* gives its result or raises its error.
RECURSIVE RunReadable(_, _, _)
RunReadable(d, r, i) ==
    IF i > Len(d.parts) THEN CheckReadable(d, r)
    ELSE IF ~Intersects(requested_range(d, r), d.parts[i])
    THEN RunReadable(d, r, i + 1)
    ELSE LET d1 == [d EXCEPT !.readers[r].awaited = @ \union {i}]
         IN IF d.parts[i].st = "done" THEN RunReadable(d1, r, i + 1)
            ELSE IF d.parts[i].st = "failed"
            THEN [d1 EXCEPT !.readers[r].st = "raised", !.readers[r].why = "part"]
            ELSE [d1 EXCEPT !.readers[r].st = "await", !.readers[r].aw = i,
                            !.parts[i].cbs = Append(@, [cb |-> "reader", arg |-> r])]

\* await_readable, were it to have no completed.done() branch
await_readable_no_early(d, offset, length) ==
    LET d1 == [d EXCEPT !.readers = <<NewReader(offset, length)>>]
    IN RunReadable(d1, 1, 1)

\* Download.await_readable(offset, length), up to its first suspension
await_readable(d, offset, length) ==
    LET d1 == [d EXCEPT !.readers =
                  <<[NewReader(offset, length) EXCEPT !.before =
                        d.readers # <<>>
                        /\ (d.readers[1].st = "returned" \/ d.readers[1].before)]>>]
        r == 1
    IN IF d.completed.st = "none"   \* self.completed is None: AttributeError
       THEN [d1 EXCEPT !.readers[r].st = "raised", !.readers[r].why = "attribute"]
       ELSE IF d.completed.st \in {"done", "failed"}
       THEN [d1 EXCEPT !.readers[r].early = TRUE,
                       !.readers[r].st = IF d.completed.st = "done"
                                         THEN "returned" ELSE "raised",
                       !.readers[r].why = IF d.completed.st = "done"
                                          THEN "none" ELSE "completed"]
       ELSE RunReadable(d1, r, 1)

\* The wake-up of the call r by the future it was suspended on
StepReader(d, r) ==
    IF d.parts[d.readers[r].aw].st = "failed"
    THEN [d EXCEPT !.readers[r].st = "raised", !.readers[r].why = "part"]
    ELSE RunReadable(d, r, d.readers[r].aw + 1)

\* ------------------------------------------------- fetch_total_length
DigitChars == <<"0", "1", "2", "3", "4", "5", "6", "7", "8", "9">>

IsDigit(c) == c \in Range(DigitChars)

DigitValue(c) == (CHOOSE n \in DOMAIN DigitChars : DigitChars[n] = c) - 1

\* int(text) of a non-empty text of decimal digits
RECURSIVE int(_)
int(text) ==
    IF text = <<>> THEN 0
    ELSE 10 * int(SubSeq(text, 1, Len(text) - 1)) + DigitValue(text[Len(text)])

\* int(text) raises ValueError
IntFails(text) == text = <<>> \/ \E i \in DOMAIN text : ~IsDigit(text[i])

\* the position after the run of digits of text that starts at position i
RECURSIVE SkipDigits(_, _)
SkipDigits(text, i) ==
    IF i <= Len(text) /\ IsDigit(text[i]) THEN SkipDigits(text, i + 1) ELSE i

BytesPrefix == <<"b", "y", "t", "e", "s", " ">>

\* re.match("bytes ([0-9]*)-([0-9]*)/([0-9]*)", text): the match is anchored
\* at the start of text only, and each group takes the digits there are.
match(text) ==
    LET i == SkipDigits(text, Len(BytesPrefix) + 1)
        j == SkipDigits(text, i + 1)
        k == SkipDigits(text, j + 1)
    IN IF /\ Len(text) >= Len(BytesPrefix)
          /\ SubSeq(text, 1, Len(BytesPrefix)) = BytesPrefix
          /\ i <= Len(text) /\ text[i] = "-"
          /\ j <= Len(text) /\ text[j] = "/"
       THEN [matched |-> TRUE, group3 |-> SubSeq(text, j + 1, k - 1)]
       ELSE [matched |-> FALSE, group3 |-> <<>>]

\* The last line of fetch_total_length, int(total_length), for a total_length
\* that is None ("none"), a str or an int
to_int(v) ==
    IF v.kind = "none" THEN [raised |-> "TypeError", n |-> -1]
    ELSE IF v.kind = "int" THEN [raised |-> "none", n |-> v.n]
    ELSE IF IntFails(v.text) THEN [raised |-> "ValueError", n |-> -1]
    ELSE [raised |-> "none", n |-> int(v.text)]

\* fetch_total_length, were it to look at Content-Range first
fetch_total_length_range_first(r) ==
    IF r.cr.present
    THEN LET m == match(r.cr.text)
         IN IF ~m.matched THEN [raised |-> "AttributeError", n |-> -1]
            ELSE to_int([kind |-> "str", n |-> 0, text |-> m.group3])
    ELSE IF r.cl.present THEN to_int([kind |-> "str", n |-> 0, text |-> r.cl.text])
    ELSE to_int([kind |-> "none", n |-> 0, text |-> <<>>])

\* Download.fetch_total_length on the response r.  r.content_length is
\* int(Content-Length), or None without the header; `or` takes the header text
\* when that is None or 0; a total_length that is None or "" is taken from
\* Content-Range when there is one.  The result: the exception raised, or n.
fetch_total_length(r) ==
    IF r.cl.present /\ IntFails(r.cl.text)
    THEN [raised |-> "ValueError", n |-> -1]
    ELSE LET content_length == IF r.cl.present THEN int(r.cl.text) ELSE 0
             total_length_1 ==
                 IF r.cl.present /\ content_length # 0
                 THEN [kind |-> "int", n |-> content_length, text |-> <<>>]
                 ELSE IF r.cl.present
                 THEN [kind |-> "str", n |-> 0, text |-> r.cl.text]
                 ELSE [kind |-> "none", n |-> 0, text |-> <<>>]
             falsy == total_length_1.kind = "none"
                      \/ (total_length_1.kind = "str" /\ total_length_1.text = <<>>)
         IN IF falsy /\ r.cr.present
            THEN LET m == match(r.cr.text)
                 IN IF ~m.matched THEN [raised |-> "AttributeError", n |-> -1]
                    ELSE to_int([kind |-> "str", n |-> 0, text |-> m.group3])
            ELSE to_int(total_length_1)

\* ---------------------------------------------- actions of the download
\* Application code calls `await download.start()`: the HEAD request is sent.
StartCall ==
    /\ start_pc = "idle"
    /\ start_pc' = "probe"
    /\ UNCHANGED <<head, chunk_size, file_pos, total_length, aiofile, parts, parts_set,
                   dl_completed, write_lock, dl_ready, readers, dl_hist>>
    /\ UNCHANGED <<delay_vars, model_vars, session_vars>>

\* fetch_total_length returns n.
ProbeReturns(n) ==
    /\ start_pc = "probe"
    /\ total_length' = n
    /\ start_pc' = "open"
    /\ UNCHANGED <<head, chunk_size, file_pos, aiofile, parts, parts_set,
                   dl_completed, write_lock, dl_ready, readers, dl_hist>>
    /\ UNCHANGED <<delay_vars, model_vars, session_vars>>

\* The response resp to the HEAD request of start() arrives:
\* fetch_total_length returns the length it finds in it, or raises.
HeadResponse(resp) ==
    /\ start_pc = "probe"
    /\ head' = resp
    /\ LET v == fetch_total_length(resp)
       IN /\ total_length' = IF v.raised = "none" THEN v.n ELSE total_length
          /\ start_pc' = IF v.raised = "none" THEN "open" ELSE "raised"
    /\ UNCHANGED <<chunk_size, aiofile, file_pos, parts, parts_set,
                   dl_completed, write_lock, dl_ready, readers, dl_hist>>
    /\ UNCHANGED <<delay_vars, model_vars, session_vars>>

\* start(), were it to open the destination before the probe: when
\* fetch_total_length raises the file has been created and truncated
StartRaises_opened ==
    /\ start_pc \in {"probe", "open"}
    /\ start_pc' = "raised"
    /\ aiofile' = "open"
    /\ UNCHANGED <<head, chunk_size, file_pos, total_length, parts, parts_set,
                   dl_completed, write_lock, dl_ready, readers, dl_hist>>
    /\ UNCHANGED <<delay_vars, model_vars, session_vars>>

\* fetch_total_length raises, or aiofiles.open raises: so does start().
StartRaises ==
    /\ start_pc \in {"probe", "open"}
    /\ start_pc' = "raised"
    /\ UNCHANGED <<head, chunk_size, file_pos, total_length, aiofile, parts, parts_set,
                   dl_completed, write_lock, dl_ready, readers, dl_hist>>
    /\ UNCHANGED <<delay_vars, model_vars, session_vars>>

\* aiofiles.open returns the sink.
OpenReturns ==
    /\ start_pc = "open"
    /\ aiofile' = "open"
    /\ start_pc' = "truncate"
    /\ UNCHANGED <<head, chunk_size, file_pos, total_length, parts, parts_set,
                   dl_completed, write_lock, dl_ready, readers, dl_hist>>
    /\ UNCHANGED <<delay_vars, model_vars, session_vars>>

\* aiofile.truncate returns: start() runs to its end.  The workers are
\* created and scheduled in the order of the ranges, then await_completed.
TruncateReturns ==
    /\ start_pc = "truncate"
    /\ LET ranges == sliced(total_length, chunk_size, 0)
       IN /\ parts' = [i \in 1..Len(ranges) |-> NewPart(ranges[i])]
          /\ dl_ready' = dl_ready
                          \o [i \in 1..Len(ranges) |-> [cb |-> "part", arg |-> i]]
                          \o <<[cb |-> "completed", arg |-> 0]>>
    /\ parts_set' = TRUE
    /\ dl_completed' = [dl_completed EXCEPT !.st = "new"]
    /\ start_pc' = "returned"
    /\ UNCHANGED <<head, chunk_size, file_pos, total_length, aiofile, write_lock, readers, dl_hist>>
    /\ UNCHANGED <<delay_vars, model_vars, session_vars>>

\* aiofile.truncate raises: the except block calls self.aiofile.close(), which
\* makes a coroutine; it is not awaited, so nothing runs and the sink stays
\* open; start() raises.
TruncateRaises ==
    /\ start_pc = "truncate"
    /\ start_pc' = "raised"
    /\ UNCHANGED <<head, chunk_size, file_pos, total_length, aiofile, parts, parts_set,
                   dl_completed, write_lock, dl_ready, readers, dl_hist>>
    /\ UNCHANGED <<delay_vars, model_vars, session_vars>>

\* load_completed from its assertion on, the file on disk being file_length
\* bytes long, were the assertion left out
load_completed_unchecked(d, file_length) ==
    LET full_range == [start |-> 0, stop |-> d.total_length]
    IN [d EXCEPT !.write_lock.locked = FALSE,
                 !.hist.file_length = file_length,
                 !.parts = <<[NewPart(full_range) EXCEPT
                                 !.st = "done", !.offset = full_range.stop]>>,
                 !.completed.st = "done",
                 !.completed.result = <<full_range>>,
                 !.completed.bare = TRUE]

\* load_completed from its assertion on (lines 61-71), the file on disk being
\* file_length bytes long.  The assertion fails and the lock is released; or
\* the lock is released, parts gets one entry whose future is resolved to
\* range(0, total_length) and completed is a future resolved to that range.
load_completed(d, file_length) ==
    LET full_range == [start |-> 0, stop |-> d.total_length]
    IN IF file_length # d.total_length
       THEN [d EXCEPT !.write_lock.locked = FALSE,
                      !.hist.file_length = file_length]
       ELSE [d EXCEPT !.write_lock.locked = FALSE,
                      !.hist.file_length = file_length,
                      !.parts = <<[NewPart(full_range) EXCEPT
                                      !.st = "done", !.offset = full_range.stop]>>,
                      !.completed.st = "done",
                      !.completed.result = <<full_range>>,
                      !.completed.bare = TRUE]

\* Application code calls `await download.load_completed()`: the HEAD request
\* is sent.
LoadCall ==
    /\ start_pc = "idle"
    /\ start_pc' = "l_probe"
    /\ UNCHANGED <<head, chunk_size, file_pos, total_length, aiofile, parts, parts_set,
                   dl_completed, write_lock, dl_ready, readers, dl_hist>>
    /\ UNCHANGED <<delay_vars, model_vars, session_vars>>

\* fetch_total_length returns n to load_completed.
LoadProbeReturns(n) ==
    /\ start_pc = "l_probe"
    /\ total_length' = n
    /\ start_pc' = "l_open"
    /\ UNCHANGED <<head, chunk_size, file_pos, aiofile, parts, parts_set,
                   dl_completed, write_lock, dl_ready, readers, dl_hist>>
    /\ UNCHANGED <<delay_vars, model_vars, session_vars>>

\* fetch_total_length raises, or aiofiles.open raises (there is no file): so
\* does load_completed().
LoadRaises ==
    /\ start_pc \in {"l_probe", "l_open"}
    /\ start_pc' = "load_raised"
    /\ UNCHANGED <<head, chunk_size, file_pos, total_length, aiofile, parts, parts_set,
                   dl_completed, write_lock, dl_ready, readers, dl_hist>>
    /\ UNCHANGED <<delay_vars, model_vars, session_vars>>

\* aiofiles.open returns the file; write_lock is free and is taken without
\* suspension; the executor is asked for the position.
LoadOpenReturns ==
    /\ start_pc = "l_open"
    /\ aiofile' = "open"
    /\ write_lock' = [write_lock EXCEPT !.locked = TRUE]
    /\ start_pc' = "l_measure"
    /\ UNCHANGED <<head, chunk_size, file_pos, total_length, parts, parts_set,
                   dl_completed, dl_ready, readers, dl_hist>>
    /\ UNCHANGED <<delay_vars, model_vars, session_vars>>

\* The executor has run tell(), seek(0, SEEK_END), tell() and, when the
\* assertion held, seek(old_file_position): the file is file_length bytes
\* long.  load_completed runs up to the exit of `async with aiofiles.open`,
\* where it awaits close().
LoadMeasured(file_length) ==
    /\ start_pc = "l_measure"
    /\ LET d == load_completed(DCur, file_length)
       IN /\ DInstall(d)
          /\ parts_set' = (d.completed.st = "done")
          /\ start_pc' = IF d.completed.st = "done" THEN "l_close" ELSE "l_close_err"
    /\ UNCHANGED <<head, chunk_size>>
    /\ UNCHANGED <<delay_vars, model_vars, session_vars>>

\* The executor has run close() for load_completed, which returns, or raises
\* the AssertionError.
LoadCloseDone ==
    /\ start_pc \in {"l_close", "l_close_err"}
    /\ aiofile' = "closed"
    /\ dl_hist' = [dl_hist EXCEPT !.closes = @ + 1]
    /\ start_pc' = IF start_pc = "l_close" THEN "loaded" ELSE "load_raised"
    /\ UNCHANGED <<head, chunk_size, file_pos, total_length, parts, parts_set, dl_completed,
                   write_lock, dl_ready, readers>>
    /\ UNCHANGED <<delay_vars, model_vars, session_vars>>

\* The loop runs the callback at the head of its queue.  The first step of a
\* worker sends the request of its part and suspends (ok), or the request
\* raises at once and the worker fails.
DStep(ok) ==
    /\ dl_ready # <<>>
    /\ Head(dl_ready).cb # "part" => ok
    /\ LET c == Head(dl_ready)
           d == [DCur EXCEPT !.ready = Tail(dl_ready)]
       IN DInstall(IF c.cb = "part"
                   THEN (IF ok THEN [d EXCEPT !.parts[c.arg].st = "read"]
                         ELSE FinishPart(d, c.arg, "failed"))
                   ELSE IF c.cb = "gather" THEN gather_done_callback(d, c.arg)
                   ELSE IF c.cb = "completed" THEN await_completed(d)
                   ELSE StepReader(d, c.arg))
    /\ UNCHANGED <<head, chunk_size, parts_set, start_pc>>
    /\ UNCHANGED <<delay_vars, model_vars, session_vars>>

\* The loop has run the callbacks start() scheduled: the requests are out and
\* gather() has its callbacks on the parts.  Before, nothing has been asked
\* for from outside and the loop has not polled for I/O.
Polling == dl_completed.st # "new"

\* readchunk() of part i returns k bytes: the worker calls _write_chunk.  The
\* request asks for bytes start..stop inclusive.
Chunk(i, k) ==
    /\ Polling
    /\ parts[i].st = "read"
    /\ parts[i].offset + k <= parts[i].stop + 1
    /\ DInstall(write_chunk(DCur, i, k))
    /\ UNCHANGED <<head, chunk_size, parts_set, start_pc>>
    /\ UNCHANGED <<delay_vars, model_vars, session_vars>>

\* readchunk() of part i returns an empty chunk (the loop ends, the worker
\* awaits aiofile.flush()); or the request or readchunk() raises.
EndOfBody(i, ok) ==
    /\ Polling
    /\ parts[i].st = "read"
    /\ DInstall(IF ok THEN [DCur EXCEPT !.parts[i].st = "flush"]
                ELSE FinishPart(DCur, i, "failed"))
    /\ UNCHANGED <<head, chunk_size, parts_set, start_pc>>
    /\ UNCHANGED <<delay_vars, model_vars, session_vars>>

\* _write_chunk of part i after a step of _blocking_write_chunk: when that
\* has returned or raised, the worker leaves `async with self.write_lock`.
write_step(d, i) ==
    LET d1 == blocking_write_chunk(d, i)
    IN IF d1.parts[i].st = "raise" THEN FinishPart(release(d1), i, "failed")
       ELSE IF d1.parts[i].st = "read" THEN release(d1)
       ELSE d1

\* _blocking_write_chunk of part i from where it stands to its end
RECURSIVE write_run(_, _)
write_run(d, i) ==
    IF d.parts[i].st \in {"write", "seeked", "written"}
    THEN write_run(write_step(d, i), i)
    ELSE d

\* The executor thread of part i has run self.oiofile.seek(offset).
Seek(i) ==
    /\ parts[i].st = "write"
    /\ DInstall(write_step(DCur, i))
    /\ UNCHANGED <<head, chunk_size, parts_set, start_pc>>
    /\ UNCHANGED <<delay_vars, model_vars, session_vars>>

\* The executor thread of part i has run self.oiofile.write(chunk).
Write(i) ==
    /\ parts[i].st = "seeked"
    /\ DInstall(write_step(DCur, i))
    /\ UNCHANGED <<head, chunk_size, parts_set, start_pc>>
    /\ UNCHANGED <<delay_vars, model_vars, session_vars>>

\* The executor thread of part i has run tell() and the assertions:
\* _blocking_write_chunk returns and offset advances, or it raises and the
\* worker fails.  Either way write_lock is released.
Tell(i) ==
    /\ parts[i].st = "written"
    /\ DInstall(write_step(DCur, i))
    /\ UNCHANGED <<head, chunk_size, parts_set, start_pc>>
    /\ UNCHANGED <<delay_vars, model_vars, session_vars>>

\* The executor has run _blocking_write_chunk for part i, all of it: on a
\* closed file seek() raises and the worker fails, otherwise the chunk is
\* written and offset advances.  Either way write_lock is released.
WriteDone(i) ==
    /\ parts[i].st = "write"
    /\ DInstall(write_run(DCur, i))
    /\ UNCHANGED <<head, chunk_size, parts_set, start_pc>>
    /\ UNCHANGED <<delay_vars, model_vars, session_vars>>

\* The end of download_range, were it to raise when offset has not reached
\* byte_range.stop
download_range_end_strict(d, i) ==
    FinishPart(d, i, IF d.aiofile = "closed" \/ d.parts[i].offset < d.parts[i].stop
                     THEN "failed" ELSE "done")

\* The end of download_range for part i (lines 133-135): flush() raises on a
\* closed file, otherwise range(byte_range.start, offset) is returned.
download_range_end(d, i) ==
    FinishPart(d, i, IF d.aiofile = "closed" THEN "failed" ELSE "done")

\* The executor has run flush() for part i: on a closed file it raises,
\* otherwise download_range returns range(byte_range.start, offset).
FlushDone(i) ==
    /\ parts[i].st = "flush"
    /\ DInstall(download_range_end(DCur, i))
    /\ UNCHANGED <<head, chunk_size, parts_set, start_pc>>
    /\ UNCHANGED <<delay_vars, model_vars, session_vars>>

\* The executor has run close() for await_completed: the sink is closed.
CloseDone ==
    /\ dl_completed.st = "closing"
    /\ aiofile' = "closed"
    /\ dl_hist' = [dl_hist EXCEPT !.closes = @ + 1]
    /\ dl_completed' = [dl_completed EXCEPT !.st = "wake_close"]
    /\ dl_ready' = Append(dl_ready, [cb |-> "completed", arg |-> 0])
    /\ UNCHANGED <<head, chunk_size, file_pos, total_length, parts, parts_set, write_lock,
                   readers, start_pc>>
    /\ UNCHANGED <<delay_vars, model_vars, session_vars>>

\* A task of the application calls `await download.await_readable(offset,
\* length)`, after start() or load_completed() has returned or
\* load_completed() has raised.  The calls do not act on each other
\* (a call reads the download and adds a callback to a part future): the
\* calls for one window are followed, the next when the one before is over.
AwaitReadable(offset, length) ==
    /\ start_pc \in {"returned", "loaded", "load_raised"}
    /\ \A r \in DOMAIN readers :
          /\ readers[r].st \in {"returned", "raised"}
          /\ readers[r].offset = offset /\ readers[r].length = length
    /\ DInstall(await_readable(DCur, offset, length))
    /\ UNCHANGED <<head, chunk_size, parts_set, start_pc>>
    /\ UNCHANGED <<delay_vars, model_vars, session_vars>>

DownloadNext ==
    \/ StartCall
    \/ \E n \in 0..MaxLen : Len(sliced(n, chunk_size, 0)) <= MaxParts /\ ProbeReturns(n)
    \/ StartRaises
    \/ OpenReturns
    \/ TruncateReturns
    \/ TruncateRaises
    \/ \E ok \in BOOLEAN : DStep(ok)
    \/ \E i \in DOMAIN parts, k \in 1..MaxRead : Chunk(i, k)
    \/ \E i \in DOMAIN parts, ok \in BOOLEAN : EndOfBody(i, ok)
    \/ \E i \in DOMAIN parts : WriteDone(i)
    \/ \E i \in DOMAIN parts : FlushDone(i)
    \/ CloseDone
    \/ \E offset \in 0..MaxLen, length \in 0..MaxLen : AwaitReadable(offset, length)
    \/ LoadCall
    \/ \E n \in 0..MaxLen : LoadProbeReturns(n)
    \/ LoadRaises
    \/ LoadOpenReturns
    \/ \E file_length \in 0..MaxLen : LoadMeasured(file_length)
    \/ LoadCloseDone

\* Downloads of every chunk_size up to the bound
DownloadInit ==
    InitDelay /\ InitModel /\ InitSession(SemNumber) /\ \E c \in 1..MaxChunkSize : InitDownload(c)

DownloadSpec == DownloadInit /\ [][DownloadNext]_vars

\* start() alone, for longer files and larger chunks
MaxPlanLen == 9
MaxPlanChunk == 4

StartNext ==
    \/ StartCall
    \/ \E n \in 0..MaxPlanLen : ProbeReturns(n)
    \/ StartRaises
    \/ OpenReturns
    \/ TruncateReturns
    \/ TruncateRaises

StartInit ==
    InitDelay /\ InitModel /\ InitSession(SemNumber) /\ \E c \in 1..MaxPlanChunk : InitDownload(c)

StartSpec == StartInit /\ [][StartNext]_vars

\* The transfer alone, the calls of _blocking_write_chunk on the file followed
\* one by one.  The file is open: the parts are running.
WriteNext ==
    \/ StartCall
    \/ \E n \in 0..MaxLen : Len(sliced(n, chunk_size, 0)) <= MaxParts /\ ProbeReturns(n)
    \/ OpenReturns
    \/ TruncateReturns
    \/ \E ok \in BOOLEAN : DStep(ok)
    \/ \E i \in DOMAIN parts, k \in 1..MaxRead : Chunk(i, k)
    \/ \E i \in DOMAIN parts, ok \in BOOLEAN : EndOfBody(i, ok)
    \/ \E i \in DOMAIN parts : Seek(i)
    \/ \E i \in DOMAIN parts : Write(i)
    \/ \E i \in DOMAIN parts : Tell(i)
    \/ \E i \in DOMAIN parts : FlushDone(i)
    \/ CloseDone

WriteSpec == DownloadInit /\ [][WriteNext]_vars

\* fetch_total_length alone, for the responses a server may give: no
\* Content-Length or some digits; no Content-Range, or up to MaxBody
\* characters with or without `bytes ` before them
BodyChars == {"1", "2", "-", "/", "*"}

LengthHeaders ==
    {NoHeader} \union
    {[present |-> TRUE, text |-> t] :
        t \in UNION {[1..n -> {"0", "1"}] : n \in 1..MaxLengthDigits}}

RangeHeaders ==
    {NoHeader} \union
    {[present |-> TRUE, text |-> p \o b] :
        p \in {BytesPrefix, <<>>},
        b \in UNION {[1..n -> BodyChars] : n \in 0..MaxBody}}

ProbeNext ==
    \/ StartCall
    \/ /\ start_pc = "probe"
       /\ \E cl \in LengthHeaders, cr \in RangeHeaders :
             HeadResponse([seen |-> TRUE, cl |-> cl, cr |-> cr])

ProbeSpec == Init /\ [][ProbeNext]_vars

\* ------------------------------------------------- StudIPSession
\* bounds of the session: the clock, the calls of get_courses
MaxSessionTime == 12
MaxCourseCalls == 2

\* get_courses: _needs_reset_at = time() + 9, call_later(10, ...)
ResetAfter == 9
TimerDelay == 10

\* The state of the session the operations read and write, as one value
SCur ==
    [time |-> loop_time, user |-> user_selected, selection |-> selection,
     needs_reset_at |-> needs_reset_at, lock |-> semester_select_lock,
     timers |-> timers, tasks |-> s_tasks, hist |-> s_hist]

SInstall(s) ==
    /\ loop_time' = s.time
    /\ user_selected' = s.user
    /\ selection' = s.selection
    /\ needs_reset_at' = s.needs_reset_at
    /\ semester_select_lock' = s.lock
    /\ timers' = s.timers
    /\ s_tasks' = s.tasks
    /\ s_hist' = s.hist

\* A call of get_courses(semester) or, made by the timer of the call `timer`
\* of get_courses, of __reset_selections(quiet=True).  pc: "lock" (waiting
\* for _semester_select_lock), "ansicht", "semester", "r_semester",
\* "r_ansicht" (holding the lock, the request of that name in flight),
\* "returned", "raised"; history: pending and since, at the test of
\* __reset_selections whether _needs_reset_at was set and the time passed
\* since get_courses last set it; posted, it went on to its requests.
NewCall(kind, semester, timer) ==
    [kind |-> kind, pc |-> "lock", semester |-> semester, timer |-> timer,
     pending |-> FALSE, since |-> 0, posted |-> FALSE]

\* The call t leaves `async with self._semester_select_lock`.
leave(s, t, pc) == [s EXCEPT !.tasks[t].pc = pc, !.lock = Tail(@)]

\* get_courses of the call t from `change_semester = ...` to the request of
\* __select_semester (lines 119-126)
get_courses_select(s, t) ==
    LET change_ansicht == s.user.ansicht # SemNumber
        change_semester == s.user.semester # s.tasks[t].semester
        s1 == IF change_semester \/ change_ansicht
              THEN [s EXCEPT
                      !.needs_reset_at = s.time + ResetAfter,
                      !.timers = @ \union {[when |-> s.time + TimerDelay,
                                            of |-> s.hist.calls + 1]},
                      !.hist.calls = @ + 1,
                      !.hist.last_change = s.time,
                      !.hist.restored_by = <<>>]
              ELSE s
    IN [s1 EXCEPT !.tasks[t].pc = "semester"]

\* __reset_selections, were its test to leave the clock out
reset_due_any_time(s) == s.needs_reset_at # 0

\* The test of a non-forced __reset_selections (line 154), negated
reset_due(s) == s.needs_reset_at # 0 /\ ~(s.needs_reset_at > s.time)

\* The call t has taken the lock: it runs to its first request, or returns.
enter(s, t) ==
    IF s.tasks[t].kind = "get_courses"
    THEN IF s.user.ansicht # SemNumber
         THEN [s EXCEPT !.tasks[t].pc = "ansicht"]
         ELSE get_courses_select(s, t)
    ELSE LET s1 == [s EXCEPT !.tasks[t].pending = s.needs_reset_at # 0,
                             !.tasks[t].since = s.time - s.hist.last_change]
         IN IF reset_due(s)
            THEN [s1 EXCEPT !.tasks[t].pc = "r_semester",
                            !.tasks[t].posted = TRUE]
            ELSE leave(s1, t, "returned")

\* The request of the call t is answered: as asked (ok: the server has
\* selected what was posted) or not (the request or the assertion on the
\* answer raises, the call ends and the selection stays as it was).
response(s, t, ok) ==
    LET c == s.tasks[t]
    IN IF ~ok THEN leave([s EXCEPT !.hist.failed = TRUE], t, "raised")
       ELSE IF c.pc = "ansicht"
       THEN get_courses_select([s EXCEPT !.selection.ansicht = SemNumber], t)
       ELSE IF c.pc = "semester"
       THEN leave([s EXCEPT !.selection.semester = c.semester], t, "returned")
       ELSE IF c.pc = "r_semester"
       THEN [s EXCEPT !.selection.semester = s.user.semester,
                      !.tasks[t].pc = "r_ansicht"]
       ELSE leave([s EXCEPT !.selection.ansicht = s.user.ansicht,
                            !.needs_reset_at = 0,
                            !.hist.restored_by = Append(@, c.timer)],
                  t, "returned")

\* A task of the application calls `await session.get_courses(semester)`.
GetCourses(semester) ==
    /\ Cardinality({t \in DOMAIN s_tasks : s_tasks[t].kind = "get_courses"})
          < MaxCourseCalls
    /\ loop_time + TimerDelay <= MaxSessionTime
    /\ s_tasks' = Append(s_tasks, NewCall("get_courses", semester, 0))
    /\ semester_select_lock' = Append(semester_select_lock, Len(s_tasks) + 1)
    /\ UNCHANGED <<loop_time, user_selected, selection, needs_reset_at, timers,
                   s_hist>>
    /\ UNCHANGED <<delay_vars, dl_vars, model_vars>>

\* A timer of get_courses is due: its callback makes the task of
\* __reset_selections(quiet=True).
TimerFires ==
    /\ \E tm \in timers :
          /\ tm.when <= loop_time
          /\ timers' = timers \ {tm}
          /\ s_tasks' = Append(s_tasks, NewCall("reset", "none", tm.of))
    /\ semester_select_lock' = Append(semester_select_lock, Len(s_tasks) + 1)
    /\ UNCHANGED <<loop_time, user_selected, selection, needs_reset_at, s_hist>>
    /\ UNCHANGED <<delay_vars, dl_vars, model_vars>>

\* The first call in the queue of the lock takes it.
Enter ==
    /\ semester_select_lock # <<>>
    /\ s_tasks[Head(semester_select_lock)].pc = "lock"
    /\ SInstall(enter(SCur, Head(semester_select_lock)))
    /\ UNCHANGED <<delay_vars, dl_vars, model_vars>>

\* The server answers the request of the call that holds the lock.
Response(ok) ==
    /\ semester_select_lock # <<>>
    /\ s_tasks[Head(semester_select_lock)].pc # "lock"
    /\ SInstall(response(SCur, Head(semester_select_lock), ok))
    /\ UNCHANGED <<delay_vars, dl_vars, model_vars>>

\* The clock of the loop advances: no timer is due and no call is about to
\* take the lock.
SessionTick ==
    /\ loop_time < MaxSessionTime
    /\ \A tm \in timers : tm.when > loop_time
    /\ semester_select_lock # <<>> =>
          s_tasks[Head(semester_select_lock)].pc # "lock"
    /\ loop_time' = loop_time + 1
    /\ UNCHANGED <<user_selected, selection, needs_reset_at,
                   semester_select_lock, timers, s_tasks, s_hist>>
    /\ UNCHANGED <<delay_vars, dl_vars, model_vars>>

SessionNext ==
    \/ \E semester \in {"s1", "s2"} : GetCourses(semester)
    \/ TimerFires
    \/ Enter
    \/ \E ok \in BOOLEAN : Response(ok)
    \/ SessionTick

\* Sessions of a user whose view is sem_number or another one
SessionInit ==
    /\ InitDelay /\ InitDownload(DefaultChunkSize) /\ InitModel
    /\ \E ansicht \in {SemNumber, "gruppe"} : InitSession(ansicht)

SessionSpec == SessionInit /\ [][SessionNext]_vars

TaskIds == 1..(MaxTasks + 1)

IsFin(t, mode) ==
    t \in DOMAIN tasks /\ tasks[t].kind = "fin" /\ tasks[t].mode = mode

\* ---------------------------------------------------------------- claims

\* C1: after a burst of defer() calls from the idle state, each less than
\* trigger_delay after the previous one, run() has been started at most once,
\* and not before trigger_delay has passed since the last defer() of the burst.
C1_OneLateExecution ==
    (hist.burst /\ calls >= 1) =>
        /\ started <= 1
        /\ started = 1 => last_start >= hist.last_defer + TriggerDelay

\* Nothing is scheduled and run() is not executing: without a new call, only a
\* timer can make the loop act again.
Settled == ready = <<>> /\ ~Executing(Cur)

\* Settled, and no timer is pending: without a new call nothing happens again.
Quiescent == Settled /\ \A t \in DOMAIN tasks : tasks[t].st # "sleep"

\* C2: a defer() made while run() is executing (task pending, gate open), and
\* followed by no other call, is followed by one more start of run(): the loop
\* does not come to rest before.
C2_DeferWhileRunningRunsAgain ==
    (Quiescent /\ hist.dr_base >= 0) => started > hist.dr_base

\* C3: a finalize() made while run() is executing returns, and by then a
\* fresh execution has been started and has completed: the loop does not
\* come to rest with the call still pending.
C3_FinalizeWhileRunningReturns ==
    \A t \in TaskIds : (IsFin(t, "running") /\ tasks[t].exec) =>
        /\ Quiescent => Finished(tasks[t])
        /\ Finished(tasks[t]) => (tasks[t].seen >= 1 /\ tasks[t].cseen >= 2)

\* C4: finalize() in the idle state: the chain it starts never waits on the
\* gate, the call is over once the loop is settled, and when it is over run()
\* has been started exactly once since the call and has completed.
C4_FinalizeIdleRunsOnce ==
    \A t \in TaskIds : IsFin(t, "idle") =>
        /\ tasks[tasks[t].aw].st # "await"
        /\ Settled => Finished(tasks[t])
        /\ Finished(tasks[t]) =>
              /\ tasks[t].seen = 1 /\ tasks[t].cseen = 1
              /\ Finished(tasks[tasks[t].aw])

C4_Witness ==
    \E t \in TaskIds : IsFin(t, "idle") /\ tasks[t].st = "done" /\ tasks[t].seen = 1

\* C5: finalize() in the waiting state with no defer() after it: once the loop
\* is settled (whatever the clock shows) the call is over, and run() has been
\* started exactly once since the call and has completed.
C5_FinalizeWaitingRunsNow ==
    \A t \in TaskIds : (IsFin(t, "waiting") /\ hist.defers = tasks[t].nth) =>
        /\ Settled => Finished(tasks[t])
        /\ Finished(tasks[t]) => (tasks[t].seen = 1 /\ tasks[t].cseen >= 1)

\* C6: run() has been started at most as often as defer() and finalize() have
\* been called, and a finalize() that returned normally saw an execution
\* complete between its call and its return.
C6_AtMostOncePerCall ==
    /\ started <= calls
    /\ \A t \in TaskIds : (t \in DOMAIN tasks /\ tasks[t].kind = "fin"
                           /\ tasks[t].st = "done") => tasks[t].cseen >= 1

C6_Witness ==
    /\ started = calls /\ calls >= 2
    /\ \E t \in TaskIds : t \in DOMAIN tasks /\ tasks[t].kind = "fin"
                          /\ tasks[t].st = "done"

\* C7: finalize() raises exactly when the chain it awaited failed; and when the
\* chain that was superseded by a finalize() in the running state failed, the
\* new chain still executes run() and finalize() does not raise that failure.
C7_FinalizeRaisesNewestOnly ==
    \A t \in TaskIds : (t \in DOMAIN tasks /\ tasks[t].kind = "fin") =>
        /\ Finished(tasks[t]) =>
              (tasks[t].st = "failed" <=> tasks[tasks[t].aw].st = "failed")
        /\ (tasks[t].mode = "running" /\ tasks[tasks[t].prev].st = "failed"
            /\ Quiescent) =>
              (tasks[tasks[t].aw].st \in {"done", "failed"} /\ tasks[t].seen >= 1)

\* The wait task of the latch
WaitTask == tasks[latch_task]

\* The tasks suspended in wait_on_latch(), or released from it
IsWaiter(t) == t \in DOMAIN tasks /\ tasks[t].kind = "waiter"

\* C8: with reopen_in calls only, the last of them asking for an earlier
\* deadline than one before it, the gate does not open before the
\* latest deadline asked for, and a task released from wait_on_latch() (which
\* happens when the wait task finishes) returns normally.
C8_ClosedUntilLatestDeadline ==
    (hist.only_in /\ hist.req < hist.max_req) =>
        /\ (latch_task # 0 /\ Finished(WaitTask)) => WaitTask.at >= hist.max_req
        /\ \A t \in TaskIds : IsWaiter(t) =>
              (tasks[t].st # "cancelled" /\ tasks[t].exc = "none")

\* C9: a reopen_at/reopen_in call leaves _run_at at the maximum of its previous
\* value and the timestamp asked for; _run_at decreases in a reopen_now only.
C9_DeadlineMonotonic ==
    [][/\ (calls' = calls + 1 /\ hist'.op \in {"in", "at"})
             => run_at' = Max(run_at, hist'.req)
       /\ run_at' < run_at => (calls' = calls + 1 /\ hist'.op = "now")]_vars

C9_Witness ==
    /\ hist.op \in {"in", "at"}
    /\ hist.req < run_at
    /\ latch_task # 0 /\ ~Finished(WaitTask)

\* C10: after reopen_now() on a closed gate with its deadline in the future,
\* and no later latch call, the wait task is scheduled and then finishes
\* normally (it does not sleep again and is not cancelled), and its waiters are
\* released normally.
C10_ReopenNowOpens ==
    (hist.op = "now" /\ hist.on_closed) =>
        /\ WaitTask.st \in {"new", "ready", "done"}
        /\ \A t \in TaskIds : (IsWaiter(t) /\ tasks[t].aw = latch_task) =>
              (tasks[t].st # "cancelled" /\ tasks[t].exc = "none")

\* The wait tasks created so far
LatchTasks == {t \in DOMAIN tasks : tasks[t].kind = "latch"}

\* The task k is on its way to ending as cancelled, or has: it is scheduled or
\* cancelled (never asleep again, never returned), and a task suspended on it
\* is either still suspended, or woken with CancelledError, or has raised it.
EndsCancelled(k) ==
    /\ tasks[k].st \in {"new", "ready", "cancelled"}
    /\ ready = <<>> => tasks[k].st = "cancelled"
    /\ \A t \in TaskIds : (IsWaiter(t) /\ tasks[t].aw = k) =>
          /\ tasks[t].st \in {"await", "ready", "cancelled"}
          /\ tasks[t].st = "ready" => tasks[t].exc = "cancelled"
          /\ tasks[t].st = "await" => ~Finished(tasks[k])

C12_ReopenNeverCancelsWaiter ==
    ~hist.cancels =>
        \A t \in TaskIds : IsWaiter(t) =>
            (tasks[t].st \notin {"cancelled", "failed"} /\ tasks[t].exc = "none")

\* C13: at most one wait task is unfinished, and it is the one stored in
\* _task; no wait task has failed the assertion of its loop body.
C13_OneWaitTask ==
    /\ \A k \in LatchTasks : ~Finished(tasks[k]) => k = latch_task
    /\ \A k \in LatchTasks : tasks[k].st # "failed"

\* a second wait task was started after the first had finished, it was
\* interrupted while asleep, and its loop body has run again
C13_Witness ==
    /\ Cardinality(LatchTasks) >= 2
    /\ hist.op \in {"in", "at"} /\ hist.closed
    /\ WaitTask.st = "sleep" /\ WaitTask.when = run_at

\* ------------------------------------------------- claims on the download
Ceil(n, c) == (n + c - 1) \div c

\* C14: when start() has returned, there are ceil(N/C) parts, each of length 1
\* to C, the first starting at 0, each next starting where the previous
\* stops, the last stopping at N.
C14_PartsPartition ==
    start_pc = "returned" =>
        /\ Len(parts) = Ceil(total_length, chunk_size)
        /\ \A i \in DOMAIN parts :
              /\ parts[i].start < parts[i].stop
              /\ parts[i].stop - parts[i].start <= chunk_size
        /\ Len(parts) > 0 =>
              (parts[1].start = 0 /\ parts[Len(parts)].stop = total_length)
        /\ \A i \in 1..(Len(parts) - 1) : parts[i + 1].start = parts[i].stop

\* three parts or more, the last one short
C14_Witness ==
    /\ start_pc = "returned"
    /\ Len(parts) >= 3
    /\ parts[Len(parts)].stop - parts[Len(parts)].start < chunk_size

\* C15: completed is settled (resolved or failed) only when the future of
\* every part is settled.
C15_CompletedAfterAllParts ==
    dl_completed.st \in {"done", "failed"} =>
        \A i \in DOMAIN parts : PartDone(parts[i])

\* C16: the sink is never closed twice, and it has been closed once when
\* completed is settled and when start() has raised after opening it.
C16_SinkClosedOnce ==
    /\ dl_hist.closes <= 1
    /\ (start_pc = "returned" /\ dl_completed.st \in {"done", "failed"}) =>
          dl_hist.closes = 1
    /\ (start_pc = "raised" /\ aiofile # "none") => dl_hist.closes = 1

\* C17: once the future of a part has failed, completed never resolves; when
\* the loop is at rest and the sink is not being closed, completed has failed;
\* and a failed completed carries the error of the part that failed first.
C17_FailsWithFirstError ==
    /\ dl_hist.first_failed # 0 =>
          /\ dl_completed.st # "done" /\ dl_completed.outer # "done"
          /\ (dl_ready = <<>> /\ dl_completed.st # "closing") =>
                dl_completed.st = "failed"
    /\ dl_completed.st = "failed" => dl_completed.exc = dl_hist.first_failed

\* completed has failed with the error of the second part, the first part
\* has resolved
C17_Witness ==
    /\ dl_completed.st = "failed" /\ dl_completed.exc = 2
    /\ parts[1].st = "done"

\* C18: when completed has resolved, the ranges of its result cover
\* [0, total_length): the first starts at 0, each next starts no later than
\* the previous stops, the last stops at total_length.
C18_ResultCovers ==
    dl_completed.st = "done" =>
        LET res == dl_completed.result
        IN /\ total_length > 0 => Len(res) > 0
           /\ Len(res) > 0 =>
                 (res[1].start = 0 /\ res[Len(res)].stop = total_length)
           /\ \A i \in 1..(Len(res) - 1) : res[i + 1].start <= res[i].stop

\* The window of the call r
Window(r) == requested_range(DCur, r)

\* C19: when a call of await_readable has returned normally, every part whose
\* range intersects its window has resolved.
C19_ReadableAfterParts ==
    \A r \in DOMAIN readers : readers[r].st = "returned" =>
        \A i \in DOMAIN parts :
            Intersects(Window(r), parts[i]) => parts[i].st = "done"

\* a call over a window of two parts was suspended in its loop and has
\* returned
C19_Witness ==
    \E r \in DOMAIN readers :
        /\ readers[r].st = "returned" /\ ~readers[r].early
        /\ readers[r].aw # 0
        /\ Cardinality(readers[r].awaited) >= 2

\* C20: a call of await_readable awaits no part outside its window, and once
\* every part that intersects the window is settled and the loop is at rest
\* the call is over, whatever the other parts do.
C20_AwaitsWindowOnly ==
    \A r \in DOMAIN readers :
        /\ \A i \in readers[r].awaited : Intersects(Window(r), parts[i])
        /\ readers[r].st = "await" => Intersects(Window(r), parts[readers[r].aw])
        /\ (dl_ready = <<>>
            /\ \A i \in DOMAIN parts :
                  Intersects(Window(r), parts[i]) => PartDone(parts[i]))
              => readers[r].st \in {"returned", "raised"}

\* a call that was suspended on a part has returned, the loop is at rest and a
\* part outside the window is still being transferred
C20_Witness ==
    \E r \in DOMAIN readers :
        /\ readers[r].st = "returned" /\ ~readers[r].early
        /\ readers[r].aw # 0
        /\ dl_ready = <<>>
        /\ \E i \in DOMAIN parts :
              ~Intersects(Window(r), parts[i]) /\ ~PartDone(parts[i])

\* C21: a call of await_readable made when completed has failed raises the
\* failure of completed, awaits no part and adds no callback to a part,
\* whatever its window.
C21_FailedCompletedRaises ==
    [][\A offset \in 0..MaxLen, length \in 0..MaxLen :
          (dl_completed.st = "failed" /\ AwaitReadable(offset, length)) =>
              /\ readers'[1].st = "raised" /\ readers'[1].why = "completed"
              /\ readers'[1].awaited = {} /\ parts' = parts]_vars

\* a call has raised the failure of completed for a window whose parts all
\* resolved, after an earlier call for that window had returned normally
C21_Witness ==
    \E r \in DOMAIN readers :
        /\ readers[r].st = "raised" /\ readers[r].why = "completed"
        /\ readers[r].before
        /\ Window(r).start < Window(r).stop
        /\ \A i \in DOMAIN parts :
              Intersects(Window(r), parts[i]) => parts[i].st = "done"

\* C22: when completed has resolved after start(), its result has one entry
\* for each part, the entry at the place of a part is the range that part
\* resolved to, and the entries are by ascending start offset.
C22_ResultInPartOrder ==
    (dl_completed.st = "done" /\ start_pc = "returned") =>
        LET res == dl_completed.result
        IN /\ Len(res) = Len(parts)
           /\ \A i \in DOMAIN parts :
                 /\ parts[i].st = "done"
                 /\ res[i] = ResultOf(parts[i])
                 /\ res[i].start = parts[i].start
           /\ \A i \in 1..(Len(res) - 1) : res[i].start < res[i + 1].start

\* completed has resolved and the second part finished before the first
C22_Witness ==
    /\ dl_completed.st = "done" /\ start_pc = "returned"
    /\ Len(parts) >= 2
    /\ dl_completed.order[1] > dl_completed.order[2]

\* C23: when load_completed() has returned, parts has one entry, of range
\* [0, total_length), whose future is resolved to that range; completed is
\* resolved to a list that holds that range and nothing else; and every call
\* of await_readable has returned without suspending.
C23_LoadedLikeStarted ==
    start_pc = "loaded" =>
        LET full_range == [start |-> 0, stop |-> total_length]
        IN /\ Len(parts) = 1
           /\ parts[1].start = 0 /\ parts[1].stop = total_length
           /\ parts[1].st = "done" /\ ResultOf(parts[1]) = full_range
           /\ dl_completed.st = "done"
           /\ dl_completed.result = <<full_range>> /\ ~dl_completed.bare
           /\ \A r \in DOMAIN readers :
                 readers[r].st = "returned" /\ readers[r].aw = 0

\* C24: when load_completed() has found the file on disk to have another
\* length than total_length, it raises (after closing the file), parts and
\* completed are None, and no call of await_readable returns normally.
C24_MismatchLeavesUnset ==
    (dl_hist.file_length >= 0 /\ dl_hist.file_length # total_length) =>
        /\ start_pc \in {"l_close_err", "load_raised"}
        /\ ~parts_set /\ parts = <<>>
        /\ dl_completed.st = "none"
        /\ \A r \in DOMAIN readers : readers[r].st = "raised"

\* load_completed() has raised on a file shorter than total_length and
\* await_readable was called since
C24_Witness ==
    /\ start_pc = "load_raised"
    /\ dl_hist.file_length >= 0 /\ dl_hist.file_length < total_length
    /\ readers # <<>>

\* the number a text of decimal digits denotes, most significant digit first
RECURSIVE Pow10(_)
Pow10(e) == IF e = 0 THEN 1 ELSE 10 * Pow10(e - 1)

RECURSIVE Decimal(_)
Decimal(t) ==
    IF t = <<>> THEN 0
    ELSE DigitValue(t[1]) * Pow10(Len(t) - 1) + Decimal(Tail(t))

AllDigits(t) == \A i \in DOMAIN t : IsDigit(t[i])

\* the TOTAL fields of a text of the form `bytes A-B/TOTAL...`: after the word
\* and a space, digits (or none), a dash, digits (or none), a slash, and then
\* the digits there are, at least one
Totals(text) ==
    {SubSeq(text, x[2] + 1, x[3]) :
        x \in {y \in (7..Len(text)) \X (8..Len(text)) \X (9..Len(text)) :
                 /\ SubSeq(text, 1, 6) = BytesPrefix
                 /\ y[1] < y[2] /\ y[2] < y[3]
                 /\ text[y[1]] = "-" /\ text[y[2]] = "/"
                 /\ AllDigits(SubSeq(text, 7, y[1] - 1))
                 /\ AllDigits(SubSeq(text, y[1] + 1, y[2] - 1))
                 /\ AllDigits(SubSeq(text, y[2] + 1, y[3]))
                 /\ (y[3] = Len(text) \/ ~IsDigit(text[y[3] + 1]))}}

\* C25: when the response to the HEAD request has arrived, total_length is
\* the number in the Content-Length header if there is one; without it, the
\* TOTAL of a Content-Range header of the form `bytes A-B/TOTAL`; and without
\* Content-Length and without a Content-Range that has a TOTAL, start() has
\* raised and total_length is not set.
C25_LengthFromHeaders ==
    head.seen =>
        /\ head.cl.present =>
              (start_pc = "open" /\ total_length = Decimal(head.cl.text))
        /\ (~head.cl.present /\ head.cr.present /\ Totals(head.cr.text) # {}) =>
              /\ start_pc = "open"
              /\ \A t \in Totals(head.cr.text) : total_length = Decimal(t)
        /\ (~head.cl.present /\ (~head.cr.present \/ Totals(head.cr.text) = {})) =>
              (start_pc = "raised" /\ total_length = -1)

\* the length was taken from `bytes 1-2/2`, there being no Content-Length
C25_Witness ==
    /\ head.seen /\ ~head.cl.present /\ head.cr.present
    /\ Len(head.cr.text) = 11 /\ Totals(head.cr.text) # {}
    /\ start_pc = "open" /\ total_length = 2

\* the parts whose _blocking_write_chunk is with the executor
Writing == {i \in DOMAIN parts : parts[i].st \in {"write", "seeked", "written"}}

\* C26: at most one part has a _blocking_write_chunk with the executor; when
\* its write() is done the position of the file is offset + len(chunk), as
\* tell() will report; and no assertion of the write path has failed.
C26_WritesSerialised ==
    /\ Cardinality(Writing) <= 1
    /\ \A i \in Writing :
          (parts[i].st = "written" /\ aiofile = "open") =>
              file_pos = parts[i].offset + parts[i].pend
    /\ ~dl_hist.assert_failed

\* the second part is writing a chunk behind one of the first part, which is
\* waiting for write_lock with its next chunk
C26_Witness ==
    /\ Len(parts) >= 2
    /\ parts[2].st = "written" /\ parts[1].st = "lock"
    /\ parts[1].offset > parts[1].start

Chains == {t \in DOMAIN tasks : tasks[t].kind = "chain"}

\* C28: a defer() made in the waiting state leaves DeferredTask._task and the
\* chain it names as they are, creates no task, leaves the latch with its wait
\* task and starts no execution; the deadline of the latch does not get
\* earlier.
C28_DeferWaitingKeepsChain ==
    [][(StateOf(Cur) = "waiting" /\ Defer) =>
          /\ dt_task' = dt_task
          /\ tasks'[dt_task] = tasks[dt_task]
          /\ Len(tasks') = Len(tasks)
          /\ latch_task' = latch_task
          /\ started' = started
          /\ run_at' >= run_at]_vars

\* two defer() calls, the second one later than the first and in the waiting
\* state: there is one chain, and the deadline is trigger_delay after the
\* second call
C28_Witness ==
    /\ hist.defers = 2 /\ calls = 2
    /\ Cardinality(Chains) = 1
    /\ StateOf(Cur) = "waiting"
    /\ hist.last_defer >= 1
    /\ run_at = hist.last_defer + TriggerDelay

\* The byte b lies in the range some part resolved to
Written(b) ==
    \E i \in DOMAIN parts :
        /\ parts[i].st = "done"
        /\ ResultOf(parts[i]).start <= b /\ b < ResultOf(parts[i]).stop

\* The ranges the call r collected: those the parts it awaited resolved to
CompletedRanges(r) ==
    LET w == Awaited(DCur, r)
    IN [k \in 1..Len(w) |-> ResultOf(parts[w[k]])]

\* C29: when a call of await_readable has returned normally, every byte of
\* its window lies in the range some part resolved to, whether it returned by
\* the completed.done() branch or not; and the ranges it collected follow one
\* another with no gap and no overlap.
C29_ReturnedMeansWritten ==
    \A r \in DOMAIN readers : readers[r].st = "returned" =>
        /\ \A b \in Window(r).start..(Window(r).stop - 1) : Written(b)
        /\ \A k \in 1..(Len(CompletedRanges(r)) - 1) :
              CompletedRanges(r)[k + 1].start = CompletedRanges(r)[k].stop

\* C30: when flush() returns for a part on the open file, the future of the
\* part resolves, to the range from byte_range.start on of as many bytes as
\* readchunk() has delivered; that range is shorter than byte_range exactly
\* when fewer bytes than byte_range has were delivered.
C30_ResultIsWhatWasWritten ==
    [][\A i \in DOMAIN parts :
          (parts[i].st = "flush" /\ aiofile = "open" /\ FlushDone(i)) =>
              LET res == ResultOf(parts'[i])
              IN /\ parts'[i].st = "done"
                 /\ res = [start |-> parts[i].start,
                           stop |-> parts[i].start + parts[i].got]
                 /\ (res.stop - res.start < parts[i].stop - parts[i].start)
                       <=> (parts[i].got < parts[i].stop - parts[i].start)]_vars

\* a part of two bytes has resolved after one byte was delivered
C30_Witness ==
    \E i \in DOMAIN parts :
        /\ parts[i].st = "done"
        /\ parts[i].got = 1 /\ parts[i].stop - parts[i].start = 2
        /\ ResultOf(parts[i]).stop = parts[i].start + 1

\* ---------------------------------------------------------------------------
\* model.py: the identity-mapped domain model and its export / import
\* ---------------------------------------------------------------------------

\* the ids and attribute values the objects are built from; a date is None
\* or a datetime
Values ==
    [Semester |-> {"s1"}, Course |-> {"c1"}, File |-> {"f1", "f2"},
     name |-> [Semester |-> {"a", "b"}, Course |-> {"a", "b"}, File |-> {"a"}],
     changed |-> {[kind |-> "None", v |-> 0], [kind |-> "datetime", v |-> 1]}]

\* the class whose INSTANCES a class uses: Folder shares File.INSTANCES
Tracked(cls) == IF cls = "Folder" THEN "File" ELSE cls

\* the model layer as one value, so that the methods compose
MCur == [INSTANCES |-> INSTANCES, heap |-> heap, exc |-> "none"]

\* ModelObject.__new__: a new object is registered under its id as soon as it
\* is allocated, before __init__ fills it in; for a registered id nothing is
\* returned (None).
ModelObject_new(m, cls, id) ==
    IF id \in DOMAIN m.INSTANCES[Tracked(cls)]
    THEN [m |-> m, obj |-> 0]
    ELSE LET a == Len(m.heap) + 1
         IN [m |-> [m EXCEPT
                      !.heap = Append(@,
                          [cls |-> cls, id |-> id, init |-> FALSE, name |-> "",
                           semester |-> 0, course |-> 0, parent |-> 0,
                           changed |-> [kind |-> "None", v |-> 0],
                           contents |-> [none |-> TRUE, items |-> <<>>]]),
                      !.INSTANCES[Tracked(cls)] =
                          [x \in DOMAIN @ \cup {id} |-> IF x = id THEN a ELSE @[x]]],
             obj |-> a]

\* the converter of File.created and File.changed
datetime_converter(data) ==
    IF data.kind = "float" THEN [kind |-> "datetime", v |-> data.v] ELSE data

\* the keyword arguments of an object, or the dict of an exported one
Args(id, name, semester, course, parent, changed) ==
    [tag |-> "dict", id |-> id, name |-> name, semester |-> semester,
     course |-> course, parent |-> parent, changed |-> changed,
     has_contents |-> FALSE, contents |-> [none |-> TRUE, items |-> <<>>],
     popped |-> FALSE]

RECURSIVE get_or_create(_, _, _), file_get_or_create(_, _), init(_, _, _, _)

\* get_or_create, were it to construct an object for an id or a dict whether
\* or not the id is registered, the new object taking the place of the old
get_or_create_replace(m, cls, v) ==
    LET reg == m.INSTANCES[Tracked(cls)]
    IN IF v.tag = "obj"
       THEN LET id == m.heap[v.a].id
            IN IF id \in DOMAIN reg
               THEN [m |-> m, ret |-> reg[id]]
               ELSE [m |-> [m EXCEPT !.INSTANCES[Tracked(cls)] =
                               [x \in DOMAIN @ \cup {id} |->
                                   IF x = id THEN v.a ELSE @[x]]],
                     ret |-> v.a]
       ELSE IF v.tag = "none"
       THEN [m |-> [m EXCEPT !.exc = "ValueError"], ret |-> 0]
       ELSE LET m0 == [m EXCEPT !.INSTANCES[Tracked(cls)] =
                          [x \in DOMAIN @ \ {v.id} |-> @[x]]]
                n == ModelObject_new(m0, cls, v.id)
            IN IF v.tag = "id"
               THEN [m |-> [n.m EXCEPT !.exc = "TypeError"], ret |-> 0]
               ELSE LET i == init(n.m, n.obj, cls, v)
                    IN [m |-> i, ret |-> IF i.exc = "none" THEN n.obj ELSE 0]

\* cls.get_or_create(v): v is an instance, the attributes of an object or,
\* when it is used as a converter, an id.  The registered object of the id
\* is reused as it is, else one is created; an id alone that is not
\* registered makes cls(id) run without the other required arguments.
get_or_create(m, cls, v) ==
    LET reg == m.INSTANCES[Tracked(cls)]
    IN IF v.tag = "obj"
       THEN LET id == m.heap[v.a].id
            IN IF id \in DOMAIN reg
               THEN [m |-> m, ret |-> reg[id]]
               ELSE [m |-> [m EXCEPT !.INSTANCES[Tracked(cls)] =
                               [x \in DOMAIN @ \cup {id} |->
                                   IF x = id THEN v.a ELSE @[x]]],
                     ret |-> v.a]
       ELSE IF v.tag = "none"
       THEN [m |-> [m EXCEPT !.exc = "ValueError"], ret |-> 0]
       ELSE IF v.id \in DOMAIN reg
       THEN [m |-> m, ret |-> reg[v.id]]
       ELSE LET n == ModelObject_new(m, cls, v.id)
            IN IF v.tag = "id"
               THEN [m |-> [n.m EXCEPT !.exc = "TypeError"], ret |-> 0]
               ELSE LET i == init(n.m, n.obj, cls, v)
                    IN [m |-> i, ret |-> IF i.exc = "none" THEN n.obj ELSE 0]

\* the converter of File.parent
file_get_or_create(m, v) ==
    IF v.tag = "none" \/ (v.tag = "id" /\ v.id = "")
    THEN [m |-> m, ret |-> 0]
    ELSE get_or_create(m, "File", v)

\* __init__ of the attrs classes: the arguments pass through the converters
\* in the order of the attributes.
init(m, a, cls, d) ==
    IF cls = "Semester"
    THEN [m EXCEPT !.heap[a] = [@ EXCEPT !.init = TRUE, !.name = d.name]]
    ELSE IF cls = "Course"
    THEN LET s == get_or_create(m, "Semester", d.semester)
         IN IF s.m.exc # "none" THEN s.m
            ELSE [s.m EXCEPT !.heap[a] = [@ EXCEPT !.init = TRUE,
                                                      !.semester = s.ret,
                                                      !.name = d.name]]
    ELSE LET c == get_or_create(m, "Course", d.course)
             f == file_get_or_create(c.m, d.parent)
         IN IF c.m.exc # "none" THEN c.m
            ELSE IF f.m.exc # "none" THEN f.m
            ELSE [f.m EXCEPT !.heap[a] =
                     [@ EXCEPT !.init = TRUE, !.course = c.ret,
                               !.parent = f.ret, !.name = d.name,
                               !.changed = datetime_converter(d.changed)]]

\* transform(v) of a value that is None or a ModelObject: None or its id
transform(m, a) ==
    IF a = 0 THEN Ref("none", 0, "") ELSE Ref("id", 0, m.heap[a].id)

\* the dict of one object: asdict(obj, recurse=False) with every value
\* transformed, a datetime into its timestamp
unstructure(m, a) ==
    LET o == m.heap[a]
    IN [tag |-> "dict", id |-> o.id, name |-> o.name,
        semester |-> transform(m, o.semester),
        course |-> transform(m, o.course),
        parent |-> transform(m, o.parent),
        changed |-> IF o.changed.kind = "datetime"
                    THEN [kind |-> "float", v |-> o.changed.v]
                    ELSE o.changed,
        has_contents |-> (o.cls = "Folder"),
        contents |-> [none |-> o.contents.none,
                      items |-> [i \in DOMAIN o.contents.items |->
                                    transform(m, o.contents.items[i])]],
        popped |-> FALSE]

RECURSIVE SortedSeq(_)
SortedSeq(S) ==
    IF S = {} THEN <<>>
    ELSE LET x == CHOOSE x \in S : \A y \in S : x <= y
         IN <<x>> \o SortedSeq(S \ {x})

\* the registered objects of a class; INSTANCES.values() lists them in the
\* order of insertion, which is the order of allocation
Registered(m, cls) == {m.INSTANCES[cls][id] : id \in DOMAIN m.INSTANCES[cls]}

\* File.list_instances, traverse, over a list: a folder, then what its
\* contents lists
RECURSIVE traverse(_, _)
traverse(m, q) ==
    IF q = <<>> THEN <<>>
    ELSE LET a == Head(q)
         IN <<a>>
            \o (IF a # 0 /\ m.heap[a].cls = "Folder" /\ ~m.heap[a].contents.none
                THEN traverse(m, m.heap[a].contents.items)
                ELSE <<>>)
            \o traverse(m, Tail(q))

\* cls.list_instances(); File sorts parents before contents and asserts that
\* it reached every instance
list_instances(m, cls) ==
    IF cls = "File"
    THEN LET instances == traverse(m, SelectSeq(SortedSeq(Registered(m, "File")),
                                                LAMBDA a : m.heap[a].parent = 0))
         IN [raised |-> Len(instances) # Cardinality(DOMAIN m.INSTANCES.File),
             list |-> instances]
    ELSE [raised |-> FALSE, list |-> SortedSeq(Registered(m, cls))]

\* ModelObjectMeta.export_all_data: export_data() of every tracked class
export_all_data(m) ==
    LET export_data(cls) ==
            [i \in DOMAIN list_instances(m, cls).list |->
                unstructure(m, list_instances(m, cls).list[i])]
    IN [raised |-> list_instances(m, "File").raised,
        data |-> [Semester |-> export_data("Semester"),
                  Course |-> export_data("Course"),
                  File |-> export_data("File")]]

\* import_data with update=False, from the i-th dict of the data on:
\* get_or_create(obj) pops the id from the dict it is given.  In
\* File.import_data a dict with contents makes a Folder, from a copy of the
\* dict without the contents.  (The loop goes on from the value the state
\* has after this dict: CHOOSE over a one-element set evaluates it once.)
RECURSIVE import_from(_, _, _)
import_from(st, cls, i) ==
    IF i > Len(st.data) THEN st
    ELSE LET d == st.data[i]
             folder == cls = "File" /\ d.has_contents
         IN IF d.popped /\ ~folder
            THEN [st EXCEPT !.m.exc = "KeyError"]
            ELSE CHOOSE res \in
                     {IF r.m.exc # "none" THEN nx
                      ELSE import_from([nx EXCEPT !.objs = Append(@, r.ret)],
                                       cls, i + 1) :
                        <<r, nx>> \in
                          {<<g, [st EXCEPT !.m = g.m,
                                          !.data[i].popped =
                                              IF folder THEN @ ELSE TRUE]>> :
                             g \in {get_or_create(st.m,
                                        IF folder THEN "Folder" ELSE cls, d)}}} :
                     TRUE

\* File.import_data, second loop: the contents of the folders that have none
\* are filled in from File.INSTANCES, by id.
RECURSIVE import_contents_from(_, _)
import_contents_from(st, i) ==
    IF i > Len(st.objs) THEN st
    ELSE LET inst == st.objs[i]
             contents == st.data[i].contents
             get(uid) == IF uid \in DOMAIN st.m.INSTANCES.File
                         THEN st.m.INSTANCES.File[uid] ELSE 0
         IN CHOOSE res \in
                {import_contents_from(nx, i + 1) :
                   nx \in {IF /\ st.m.heap[inst].cls = "Folder"
                              /\ ~contents.none
                              /\ st.m.heap[inst].contents.none
                           THEN [st EXCEPT !.m.heap[inst].contents =
                                    [none |-> FALSE,
                                     items |-> [k \in DOMAIN contents.items |->
                                                   get(contents.items[k].id)]]]
                           ELSE st}} :
                TRUE

\* ModelObjectMeta.import_all_data: import_data of the tracked classes in the
\* order of their definition; an exception ends the import.
import_all_data(m, data) ==
    LET import_data(mm, cls) ==
            LET first == import_from([m |-> mm, data |-> data[cls], objs |-> <<>>],
                                     cls, 1)
            IN IF cls = "File" /\ first.m.exc = "none"
               THEN import_contents_from(first, 1)
               ELSE first
        s == import_data(m, "Semester")
        c == import_data(s.m, "Course")
        f == import_data(c.m, "File")
    IN IF s.m.exc # "none"
       THEN [m |-> s.m, data |-> [data EXCEPT !.Semester = s.data],
             objs |-> [NoData EXCEPT !.Semester = s.objs]]
       ELSE IF c.m.exc # "none"
       THEN [m |-> c.m,
             data |-> [data EXCEPT !.Semester = s.data, !.Course = c.data],
             objs |-> [NoData EXCEPT !.Semester = s.objs, !.Course = c.objs]]
       ELSE [m |-> f.m,
             data |-> [Semester |-> s.data, Course |-> c.data, File |-> f.data],
             objs |-> [Semester |-> s.objs, Course |-> c.objs, File |-> f.objs]]

\* The set of objects is built before it is exported: application code
\* creates a semester, a course of a registered semester s, or a file or a
\* folder (contents unknown) of a registered course c, at the top (p = 0)
\* or inside a registered file p.
Create(cls, id, name, s, c, p, changed) ==
    /\ ~exported.done
    /\ id \in Values[Tracked(cls)]
    /\ IF cls = "Course" THEN s \in Registered(MCur, "Semester") ELSE s = 0
    /\ IF Tracked(cls) = "File"
       THEN c \in Registered(MCur, "Course") /\ p \in Registered(MCur, "File") \cup {0}
       ELSE c = 0 /\ p = 0 /\ changed.kind = "None"
    /\ LET ref(a) == IF a = 0 THEN Ref("none", 0, "") ELSE Ref("obj", a, "")
           r == get_or_create(MCur, cls, Args(id, name, ref(s), ref(c), ref(p), changed))
       IN INSTANCES' = r.m.INSTANCES /\ heap' = r.m.heap
    /\ UNCHANGED <<exported, originals, restructured, model_exc>>
    /\ UNCHANGED <<delay_vars, dl_vars, session_vars>>

\* Application code lists a folder: its contents are the registered files
\* that have it as parent.
SetContents(f) ==
    /\ f \in Registered(MCur, "File")
    /\ heap[f].cls = "Folder"
    /\ heap' = [heap EXCEPT ![f].contents =
                   [none |-> FALSE,
                    items |-> SortedSeq({a \in Registered(MCur, "File") :
                                            heap[a].parent = f})]]
    /\ UNCHANGED <<INSTANCES, exported, originals, restructured, model_exc>>
    /\ UNCHANGED <<delay_vars, dl_vars, session_vars>>

\* ModelObjectMeta.export_all_data()
ExportAll ==
    LET e == export_all_data(MCur)
    IN /\ IF e.raised
          THEN /\ model_exc' = "AssertionError"
               /\ UNCHANGED <<exported, originals, restructured>>
          ELSE /\ model_exc' = "none"
               /\ exported' = [done |-> TRUE, data |-> e.data]
               /\ originals' = INSTANCES
               /\ restructured' = [done |-> FALSE, objs |-> NoData]
       /\ UNCHANGED <<INSTANCES, heap>>
       /\ UNCHANGED <<delay_vars, dl_vars, session_vars>>

\* ModelObjectMeta.import_all_data(data) of the data exported last
ImportAll ==
    /\ exported.done
    /\ \E r \in {import_all_data(MCur, exported.data)} :
          /\ INSTANCES' = r.m.INSTANCES
          /\ heap' = r.m.heap
          /\ model_exc' = r.m.exc
          /\ exported' = [exported EXCEPT !.data = r.data]
          /\ restructured' = [done |-> TRUE, objs |-> r.objs]
    /\ UNCHANGED originals
    /\ UNCHANGED <<delay_vars, dl_vars, session_vars>>

\* The process ends after an export and a new one starts: the classes are
\* created again, with empty INSTANCES, and the exported data is read back
\* from its file.  The objects of the old process stay in heap for
\* comparison only, and the new process is not followed into a third one.
Restart ==
    /\ exported.done
    /\ \A a \in DOMAIN heap : a \in Registered(MCur, Tracked(heap[a].cls))
    /\ INSTANCES' = NoData
    /\ exported' = [exported EXCEPT
                      !.data = [cls \in DOMAIN @ |->
                                   [i \in DOMAIN @[cls] |->
                                       [@[cls][i] EXCEPT !.popped = FALSE]]]]
    /\ restructured' = [done |-> FALSE, objs |-> NoData]
    /\ model_exc' = "none"
    /\ UNCHANGED <<heap, originals>>
    /\ UNCHANGED <<delay_vars, dl_vars, session_vars>>

ModelNext ==
    \/ \E cls \in {"Semester", "Course", "File", "Folder"} :
       \E id \in Values[Tracked(cls)], name \in Values.name[Tracked(cls)],
          s \in IF cls = "Course" THEN DOMAIN heap ELSE {0},
          c \in IF Tracked(cls) = "File" THEN DOMAIN heap ELSE {0},
          p \in IF Tracked(cls) = "File" THEN DOMAIN heap \cup {0} ELSE {0},
          changed \in IF Tracked(cls) = "File" THEN Values.changed
                      ELSE {[kind |-> "None", v |-> 0]} :
           Create(cls, id, name, s, c, p, changed)
    \/ \E f \in DOMAIN heap : SetContents(f)
    \/ ExportAll
    \/ ImportAll
    \/ Restart

ModelSpec == Init /\ [][ModelNext]_vars

\* after a round trip: every exported object has a registered counterpart
\* that import_data returned, that is equal to it (the same dict) and is
\* another object, and whose references (course.semester, file.course,
\* file.parent) are objects of the registry
RoundTripped ==
    \A cls \in {"Semester", "Course", "File"} :
        \A i \in DOMAIN exported.data[cls] :
            LET d == exported.data[cls][i]
            IN /\ d.id \in DOMAIN INSTANCES[cls]
               /\ d.id \in DOMAIN originals[cls]
               /\ LET r == INSTANCES[cls][d.id]
                  IN /\ r \in Range(restructured.objs[cls])
                     /\ unstructure(MCur, r) = [d EXCEPT !.popped = FALSE]
                     /\ r # originals[cls][d.id]
                     /\ cls = "Course" =>
                            heap[r].semester \in Registered(MCur, "Semester")
                     /\ cls = "File" =>
                            /\ heap[r].course \in Registered(MCur, "Course")
                            /\ heap[r].parent # 0 =>
                                   heap[r].parent \in Registered(MCur, "File")

\* C27: unstructuring a set of Semester, Course and File objects and
\* structuring the result back yields objects equal to the originals but
\* distinct from them, and every reference inside the restructured set
\* (course.semester, file.course, file.parent) points to the restructured
\* object registered under that id.
C27_RoundTripEqualDistinct ==
    [][ImportAll => RoundTripped']_vars

\* C31: every chunk the worker of part [start, stop) hands to the sink lands
\* at offsets inside [start, stop), so the extents written by the workers of
\* distinct parts do not meet, whatever number of bytes the server delivers.
C31_WritesInsideOwnPart ==
    \A i \in DOMAIN parts :
        parts[i].st \in {"write", "seeked", "written"} =>
            /\ parts[i].start <= parts[i].offset
            /\ parts[i].offset + parts[i].pend <= parts[i].stop
            /\ \A j \in DOMAIN parts :
                   i < j => parts[i].offset + parts[i].pend <= parts[j].start

\* C32: after a finalize() made in the waiting state the queued chain starts
\* run() without the clock advancing, whatever is called afterwards: the loop
\* does not come to rest, with only a timer left to act, before run() has been
\* started since the call.
C32_FinalizeWaitingNotPushedBack ==
    \A t \in TaskIds : (IsFin(t, "waiting") /\ Settled) =>
        started > tasks[t].base

\* C33: a call of await_readable made before completed has settled, for a
\* window that intersects no part, returns normally: it awaits no part and
\* raises nothing.
C33_EmptyWindowReturns ==
    \A r \in DOMAIN readers :
        (/\ ~readers[r].early
         /\ readers[r].why # "attribute"
         /\ \A i \in DOMAIN parts : ~Intersects(Window(r), parts[i]))
        => (readers[r].st = "returned" /\ readers[r].awaited = {})

\* C34: no chunk write is handed to the sink once the sink is closed: no step
\* taken with the sink closed puts the worker of a part into
\* _blocking_write_chunk.
C34_NoWriteAfterClose ==
    [][aiofile = "closed" =>
          \A i \in DOMAIN parts \cap DOMAIN parts' :
              parts'[i].st = "write" => parts[i].st = "write"]_vars

\* C36: when fetch_total_length has raised in start(), the destination has
\* not been opened (so neither created nor truncated), no worker of a part
\* has been created, and parts and completed are still None.
C36_ProbeFailureTouchesNothing ==
    (start_pc = "raised" /\ total_length = -1) =>
        /\ aiofile = "none" /\ file_pos = -1 /\ dl_hist.closes = 0
        /\ parts = <<>> /\ ~parts_set /\ dl_ready = <<>>
        /\ dl_completed.st = "none"

\* start() has raised before total_length was set
C36_Witness ==
    /\ start_pc = "raised" /\ total_length = -1
    /\ ~head.seen

\* C37: a non-forced __reset_selections posts its requests only when a reset
\* is pending and at least 9 time units have passed since get_courses last
\* asked for one; the selection is restored not more than once after the last
\* such call, by the timer of that call, and when every timer has run and
\* no request has failed it has been restored and is the user's own; after a
\* reset that succeeded _needs_reset_at is cleared and no later timer posts a
\* request.
C37_ResetByLastTimer ==
    /\ \A t \in DOMAIN s_tasks :
          /\ s_tasks[t].posted =>
                (s_tasks[t].pending /\ s_tasks[t].since >= ResetAfter)
          /\ s_tasks[t].pc \in {"r_semester", "r_ansicht"} =>
                s_hist.restored_by = <<>>
    /\ Len(s_hist.restored_by) <= 1
    /\ s_hist.restored_by # <<>> => needs_reset_at = 0
    /\ (/\ timers = {} /\ semester_select_lock = <<>>
        /\ s_hist.calls > 0 /\ ~s_hist.failed)
          => (Len(s_hist.restored_by) = 1 /\ selection = user_selected)
    /\ \A k \in Range(s_hist.restored_by) : k = s_hist.calls

\* C37, amended: as above, but the selection is restored by the first timer
\* whose __reset_selections runs at least 9 time units after get_courses last
\* asked for a reset, be it the timer of that call or of an earlier one.
C37_ResetByFirstDueTimer ==
    /\ \A t \in DOMAIN s_tasks :
          /\ s_tasks[t].posted =>
                (s_tasks[t].pending /\ s_tasks[t].since >= ResetAfter)
          /\ s_tasks[t].pc \in {"r_semester", "r_ansicht"} =>
                s_hist.restored_by = <<>>
          /\ (s_tasks[t].kind = "reset" /\ s_tasks[t].pc = "returned"
              /\ ~s_tasks[t].posted) =>
                (~s_tasks[t].pending \/ s_tasks[t].since < ResetAfter)
    /\ Len(s_hist.restored_by) <= 1
    /\ s_hist.restored_by # <<>> => needs_reset_at = 0
    /\ (/\ timers = {} /\ semester_select_lock = <<>>
        /\ s_hist.calls > 0 /\ ~s_hist.failed)
          => (Len(s_hist.restored_by) = 1 /\ selection = user_selected)

\* two calls of get_courses one time unit apart have asked for a reset, the
\* timer of the first has restored the selection 9 time units after the
\* second, and the timer of the second has run and posted nothing
C37_Witness ==
    /\ s_hist.calls = 2 /\ s_hist.last_change = 1 /\ ~s_hist.failed
    /\ s_hist.restored_by = <<1>>
    /\ timers = {} /\ semester_select_lock = <<>>
    /\ \E t, u \in DOMAIN s_tasks :
          /\ s_tasks[t].kind = "reset" /\ s_tasks[t].timer = 1
          /\ s_tasks[t].posted /\ s_tasks[t].since = ResetAfter
          /\ s_tasks[u].kind = "reset" /\ s_tasks[u].timer = 2
          /\ ~s_tasks[u].posted /\ ~s_tasks[u].pending

\* C35: at most one execution of run() is in progress at any time: no chain
\* starts run() while an execution an earlier chain started has not ended.
C35_OneExecution ==
    /\ started - completed <= 1
    /\ Cardinality({t \in DOMAIN tasks :
                       /\ tasks[t].kind = "chain" /\ tasks[t].pc > 0
                       /\ tasks[t].pc <= Len(tasks[t].prog)
                       /\ tasks[t].prog[tasks[t].pc] = "run"
                       /\ tasks[t].st \in {"run", "ready"}}) <= 1

\* run() is executing while a chain made by a call in the running state
\* has taken its first step and is suspended before its own run()
C35_Witness ==
    /\ started - completed = 1
    /\ \E t, u \in DOMAIN tasks :
          /\ tasks[t].st = "run"
          /\ u # t /\ tasks[u].kind = "chain" /\ tasks[u].st = "await"
          /\ tasks[u].prog[1] = "wait"

\* C38: within one process an id registered in INSTANCES of a tracked class
\* stays registered with the same object whatever is called, get_or_create
\* of a registered id returns the registered object and changes nothing, and
\* Folder has no registry of its own: it finds and registers in File's.
C38_OneObjectPerId ==
    [][/\ Restart \/ \A cls \in DOMAIN INSTANCES :
                        \A id \in DOMAIN INSTANCES[cls] :
                            /\ id \in DOMAIN INSTANCES'[cls]
                            /\ INSTANCES'[cls][id] = INSTANCES[cls][id]
       /\ DOMAIN INSTANCES' = {"Semester", "Course", "File"}
       /\ \A a \in DOMAIN heap' :
             \A id \in DOMAIN INSTANCES'[Tracked(heap'[a].cls)] :
                 INSTANCES'[Tracked(heap'[a].cls)][id] = a => heap'[a].id = id
       /\ \A cls \in {"Semester", "Course", "File", "Folder"} :
             \A id \in DOMAIN INSTANCES'[Tracked(cls)] :
                 LET m == [INSTANCES |-> INSTANCES', heap |-> heap', exc |-> "none"]
                     r == get_or_create(m, cls, Ref("id", 0, id))
                 IN r.ret = INSTANCES'[Tracked(cls)][id] /\ r.m = m]_vars

\* the exported data was imported in the process that holds the objects it
\* was exported from: get_or_create has run for every registered id, a
\* folder among them, and has returned the registered objects
C38_Witness ==
    /\ restructured.done /\ model_exc = "none"
    /\ INSTANCES = originals
    /\ \E i \in DOMAIN restructured.objs.File :
          /\ restructured.objs.File[i] \in Registered(MCur, "File")
          /\ heap[restructured.objs.File[i]].cls = "Folder"
    /\ \E i \in DOMAIN restructured.objs.File :
          heap[restructured.objs.File[i]].cls = "File"

====
